---- MODULE Spec2Model ----
(***************************************************************************)
(* Trade Sequence Orchestrator of PO_telegram_signal_bot.                  *)
(*                                                                         *)
(* The repository holds two versions of the FastAPI application:           *)
(* src/trader.py and src/main.py.  Both keep the same two globals, the     *)
(* gate is_processing_trade_sequence and the dictionary                    *)
(* trade_sequence_state, and both run on one asyncio event loop: the code  *)
(* between two awaits is atomic, every await is a point where another      *)
(* request handler or monitor task may run.  One action of this module is  *)
(* one such atomic segment.                                                *)
(*                                                                         *)
(* Units: money in cents (1.0 dollar = 100), time in centiseconds.         *)
(* None is "None" for text fields and the empty tuple for numbers.         *)
(***************************************************************************)
EXTENDS Integers, Sequences, FiniteSets, TLC

VARIABLES
  impl,                           \* which application runs: "trader" or "main"
  env_ok,                         \* SSID and UID are set in the environment
  is_processing_trade_sequence,   \* the gate
  trade_sequence_state,           \* the sequence state dictionary
  pocket_option_client,           \* the shared handle: 0 is None, else an object id
  is_connected,                   \* the client objects whose is_connected is true
  client_objs,                    \* number of AsyncPocketOptionClient objects built
  handlers,                       \* the /trade_signal requests, one coroutine each
  tasks,                          \* the monitor tasks made by asyncio.create_task
  orders,                         \* the orders the broker accepted, in order
  faults                          \* broker/network faults injected so far

vars == <<impl, env_ok, is_processing_trade_sequence, trade_sequence_state,
          pocket_option_client, is_connected, client_objs, handlers, tasks,
          orders, faults>>

----------------------------------------------------------------------------
(* Bounds of the model *)

\* number of /trade_signal requests over a run
NumSignals == 2
\* number of faults the environment injects (failed RPCs, dropped connections)
MaxFaults == 1
\* the connection drops only while at most this many coroutines are under way
MaxBusyAtDrop == 1
\* the broker rejects every order after this many
MaxOrders == 3
\* the balance the broker reports when no trade is being settled
BaseBalance == 10000
\* the broker's payout in percent of the stake
PayoutPct == 80

(* Program constants *)
FIXED_TRADE_DURATION_SECONDS == 300
INITIAL_TRADE_AMOUNT == 100
MARTINGALE_MULTIPLIER == 2
MAX_MARTINGALE_LEVELS == 2
MAX_BALANCE_RETRIES == 10
MAX_DETAILS_RETRIES == 15
\* TOLERANCE = 0.01 dollars
TOLERANCE == 1
\* timedelta(seconds=5), in centiseconds
LATE_GRACE == 500
\* time_to_wait_seconds > 0.05, in centiseconds
WAIT_THRESHOLD == 5
\* a request that arrives eleven seconds before its entry time, in centiseconds
EARLY == 1100

None == "None"
Null == <<>>
Some(v) == <<v>>
Abs(x) == IF x < 0 THEN 0 - x ELSE x

Handlers == 1..NumSignals

----------------------------------------------------------------------------
(* trade_sequence_state *)

\* trader.py, lines 43-52 and 422-431: the idle form of the dictionary
DefaultState ==
  [active |-> FALSE, asset |-> None, direction |-> None, current_level |-> 0,
   current_amount |-> INITIAL_TRADE_AMOUNT, last_trade_id |-> Null,
   last_trade_status |-> None, balance_before_current_trade |-> Null]

\* trader.py, lines 197-205: trade_sequence_state.update(...) for a new sequence
NewSequenceState(st, asset, direction) ==
  [st EXCEPT !.active = TRUE, !.asset = asset, !.direction = direction,
             !.current_level = 0, !.current_amount = INITIAL_TRADE_AMOUNT,
             !.last_trade_id = Null, !.last_trade_status = "pending"]

\* d[k] = v on a Python dictionary: the key is added when absent
SetKey(d, k, v) == [x \in DOMAIN d \cup {k} |-> IF x = k THEN v ELSE d[x]]

\* a reset that forgets to clear the snapshot and the last trade
ResetKeepsLastTrade(st) ==
  [DefaultState EXCEPT !.last_trade_id = st.last_trade_id,
                       !.balance_before_current_trade = st.balance_before_current_trade]

\* a reset that leaves the signal's asset and direction in the dictionary
ResetKeepsSignal(st) ==
  [DefaultState EXCEPT !.asset = st.asset, !.direction = st.direction]

\* reset_trade_sequence_state: the state after it
ResetState(st) == DefaultState

\* a handler that ignores the gate
GateNeverHeld(g) == FALSE

\* trader.py line 139, main.py line 116: if is_processing_trade_sequence
GateHeld(g) == g

\* a release that flips the gate instead of clearing it
GateFlipped(g) == ~g

\* a reset that forgets the gate
GateLeftAsItIs(g) == g

\* reset_trade_sequence_state: the gate after it
ResetGate(g) == FALSE

\* an off-by-one level test
CanReenterAtMax(level) == level <= MAX_MARTINGALE_LEVELS

\* the level test of execute_martingale_or_reset
CanReenter(level) == level < MAX_MARTINGALE_LEVELS

\* current_level += 1
NextLevel(level) == level + 1

\* a re-entry at the same stake
SameAmount(amount) == amount

\* current_amount *= MARTINGALE_MULTIPLIER
NextAmount(amount) == amount * MARTINGALE_MULTIPLIER

\* a webhook that trades the expiration of the signal
DurationOfSignal(parsed_data) == parsed_data.duration

\* trader.py line 157, main.py line 139: trade_duration, whatever
\* parsed_data holds
trade_duration(parsed_data) == FIXED_TRADE_DURATION_SECONDS

\* the arguments of place_order, read from the dictionary at the call
OrderRequest(st, duration) ==
  [asset |-> st.asset, amount |-> st.current_amount,
   direction |-> st.direction, duration |-> duration]

NoRequest == [asset |-> None, amount |-> 0, direction |-> None, duration |-> 0]

----------------------------------------------------------------------------
(* The broker client *)

\* a call on client object c can succeed: c is an object and it is connected
CanSucceed(c) == c # 0 /\ c \in is_connected

\* the outcomes the environment may give an RPC on c: a call on None or on a
\* disconnected client raises; a failure of a connected client is a fault
RpcOutcomes(c) ==
  (IF CanSucceed(c) THEN {"ok"} ELSE {}) \cup
  (IF ~CanSucceed(c) \/ faults < MaxFaults THEN {"raise"} ELSE {})

FaultsAfter(c, outcome) ==
  IF outcome # "ok" /\ CanSucceed(c) THEN faults + 1 ELSE faults

\* what get_balance can return: no object, or an object with a balance
BalanceReports(values) ==
  {[raised |-> FALSE, obj |-> FALSE, balance |-> Null],
   [raised |-> FALSE, obj |-> TRUE, balance |-> Null],
   [raised |-> FALSE, obj |-> TRUE, balance |-> Some(0)],
   [raised |-> FALSE, obj |-> TRUE, balance |-> Some(0 - 100)]}
  \cup {[raised |-> FALSE, obj |-> TRUE, balance |-> Some(b)] : b \in values}

\* get_balance raises
BalanceRaise == [raised |-> TRUE, obj |-> FALSE, balance |-> Null]

\* a test that takes a balance of zero for a balance
IsValidBalanceOrZero(r) == r.obj /\ r.balance # Null /\ r.balance[1] >= 0

\* get_valid_balance, line 122: the test of one report
IsValidBalance(r) == r.obj /\ r.balance # Null /\ r.balance[1] > 0

\* get_valid_balance, line 119: attempt i (0-based) was the last one
BalanceExhausted(i) == i + 1 >= MAX_BALANCE_RETRIES

\* monitor, line 305: attempt i (0-based) was the last one
DetailsExhausted(i) == i + 1 >= MAX_DETAILS_RETRIES

\* what check_order_result can return: None, or details with or without profit
DetailReports(amount) ==
  {[raised |-> FALSE, obj |-> FALSE, profit |-> Null],
   [raised |-> FALSE, obj |-> TRUE, profit |-> Null],
   [raised |-> FALSE, obj |-> TRUE, profit |-> Some((amount * PayoutPct) \div 100)]}

\* check_order_result raises
DetailRaise == [raised |-> TRUE, obj |-> FALSE, profit |-> Null]

\* monitor, line 308
HasProfit(d) == d.obj /\ d.profit # Null

\* monitor, lines 340-360: the balance decides; TRUE is martingale_reentry_needed
ExpectedWin(before, invested, profit) == before + profit + invested

ExpectedLoss(before, invested) == before - invested

\* lines 348, 352: abs(x - y) < TOLERANCE. The balances are binary floating
\* point numbers of dollars and TOLERANCE is 0.01: the test is exact when x and
\* y are not one cent apart, and at exactly one cent the rounding of the
\* difference decides (abs(101.79 - 101.8) is 0.00999999999999, but
\* abs(101.81 - 101.8) is 0.01000000000001); `below` is that rounding
WithinTolerance(x, y, below) ==
  \/ Abs(x - y) < TOLERANCE
  \/ Abs(x - y) = TOLERANCE /\ below

\* the ways the difference of two floats may round
Roundings == BOOLEAN

ReentryNeeded(current, before, invested, profit, below) ==
  IF WithinTolerance(current, ExpectedWin(before, invested, profit), below) THEN FALSE
  ELSE IF WithinTolerance(current, ExpectedLoss(before, invested), below) THEN TRUE
  ELSE TRUE

\* monitor, lines 351, 355, 360
StatusOf(current, before, invested, profit, below) ==
  IF WithinTolerance(current, ExpectedWin(before, invested, profit), below) THEN "win"
  ELSE IF WithinTolerance(current, ExpectedLoss(before, invested), below) THEN "lose"
  ELSE "uncertain_loss"

\* the balances the broker may report after a trade of `invested` from `before`
OutcomeBalances(before, invested, profit) ==
  { ExpectedWin(before, invested, profit) + d : d \in {0 - TOLERANCE, 0, TOLERANCE} }
  \cup { ExpectedLoss(before, invested) }

----------------------------------------------------------------------------
(* The parsed signal, as the webhook receives it from the parser *)

\* the member names of pocketoptionapi_async.OrderDirection
OrderDirectionNames == {"CALL", "PUT"}

\* str.upper() on the direction tokens of the model
Upper(s) ==
  CASE s = "call" -> "CALL" [] s = "put" -> "PUT"
    [] s = "sell" -> "SELL" [] s = "Up" -> "UP"
    [] OTHER -> s

\* parse_data.py: the notification texts, by what the parser's four regular
\* expressions find in them: the asset, the text after "Expiration", the
\* keyword after the direction emoji, the time after "Entry at" (None or
\* Null: no match)
Notifications ==
  [asset : {"EUR/USD", "GBPCHF", None},
   expiration : {"5M", "1H", "0M", None},
   keyword : {"BUY", "sell", "Up", "DOWN", None},
   entry : {<<10, 59>>, <<25, 99>>, Null}]

\* parse_data.py, lines 9-30
convert_duration_text_to_seconds(text) ==
  CASE text = "5M" -> 5 * 60 [] text = "1H" -> 3600 [] OTHER -> 0

\* parse_data.py, lines 54-55: replace('/', '') and the appended 'T'
AssetNameForPO(a) ==
  CASE a = "EUR/USD" -> "EURUSDT" [] a = "GBPCHF" -> "GBPCHFT" [] OTHER -> a

\* parse_data.py, lines 79-83: the direction the parser emits for a keyword
ParsedDirection(keyword) ==
  IF Upper(keyword) \in {"UP", "BUY"} THEN "BUY" ELSE "SELL"

\* the empty dictionary: .get() gives None for every key
EmptyDict ==
  [asset_name_for_po |-> None, direction |-> None, entryTime |-> Null,
   duration |-> 0]

\* a parser that returns whatever it has found
ParsesWhatItFinds(n) ==
  [asset_name_for_po |-> AssetNameForPO(n.asset),
   direction |-> IF n.keyword = None THEN None ELSE ParsedDirection(n.keyword),
   entryTime |-> n.entry,
   duration |-> IF n.expiration = None THEN 0
                ELSE convert_duration_text_to_seconds(n.expiration)]

\* parse_data.py, lines 32-101: the dictionary for notification n, by the keys
\* the webhook reads
parse_macrodroid_trade_data(n) ==
  IF n.asset = None THEN EmptyDict
  ELSE IF n.expiration = None THEN EmptyDict
  ELSE IF convert_duration_text_to_seconds(n.expiration) = 0 THEN EmptyDict
  ELSE IF n.keyword = None THEN EmptyDict
  ELSE [asset_name_for_po |-> AssetNameForPO(n.asset),
        direction |-> ParsedDirection(n.keyword),
        entryTime |-> n.entry,
        duration |-> convert_duration_text_to_seconds(n.expiration)]

\* a signal in the names of the broker's OrderDirection, for request h:
\* requests differ in asset and direction
GoodSignal(h) ==
  IF h % 2 = 1
    THEN [asset_name_for_po |-> "EURUSDT", direction |-> "CALL",
          entryTime |-> <<10, 59>>,
          duration |-> convert_duration_text_to_seconds("5M")]
    ELSE [asset_name_for_po |-> "GBPCHFT", direction |-> "put",
          entryTime |-> <<22, 15>>,
          duration |-> convert_duration_text_to_seconds("1H")]

\* the dictionaries the webhook of request h may be handed: what
\* parse_data.py returns for a notification, and dictionaries in the
\* broker's names, complete or not
ParsedData(h) ==
  {parse_macrodroid_trade_data(n) : n \in Notifications}
  \cup {GoodSignal(h),
        [GoodSignal(1) EXCEPT !.entryTime = <<25, 99>>],
        [GoodSignal(1) EXCEPT !.entryTime = Null],
        [GoodSignal(1) EXCEPT !.direction = None]}

\* webhook, line 159
MissingEssential(p) ==
  p.asset_name_for_po = None \/ p.direction = None \/ p.entryTime = Null

\* webhook, lines 167-171: OrderDirection[signal_direction_str.upper()]
ValidDirection(d) == Upper(d) \in OrderDirectionNames

\* an entry time that is not parsed
EntryTimeUnchecked(t) == TRUE

\* webhook, line 176: datetime.strptime(signal_entry_time_str, "%H:%M")
ValidEntryTime(t) == t[1] \in 0..23 /\ t[2] \in 0..59

\* target_local_dt - current_local_dt at arrival, in centiseconds
TimeToWaitValues ==
  {0 - LATE_GRACE - 1, 0 - LATE_GRACE, WAIT_THRESHOLD, WAIT_THRESHOLD + 1,
   EARLY}

\* a late test that includes the grace window's end
IsLateInclusive(ttw) == 0 - ttw >= LATE_GRACE

\* webhook, line 188: current_local_dt > target_local_dt + timedelta(seconds=5)
IsLate(ttw) == 0 - ttw > LATE_GRACE

\* webhook, line 217
MustWait(ttw) == ttw > WAIT_THRESHOLD

NoResp == [status |-> "none", trade_id |-> Null, amount |-> 0, martingale_level |-> 0]
Response(status) == [NoResp EXCEPT !.status = status]

\* webhook, lines 252-260: the accepted response, read from the dictionary
AcceptedResponse(st) ==
  [status |-> "initial_trade_placed", trade_id |-> st.last_trade_id,
   amount |-> st.current_amount, martingale_level |-> st.current_level]

\* the record of a webhook coroutine.  parsed is the dictionary the parser
\* returned and ttw is target_local_dt - current_local_dt at arrival: they stay
\* with a request that was rejected, and are dropped at the next step of one
\* that goes on
NewHandler ==
  [pc |-> "new", must_wait |-> FALSE, i |-> 0, client |-> 0, req |-> NoRequest,
   resp |-> NoResp, acquired |-> FALSE, parsed |-> Null, ttw |-> Null]

\* the handler has used its parsed signal and its arrival time
PastValidation(hr) == [hr EXCEPT !.parsed = Null, !.ttw = Null]

\* the coroutine returns or raises: its locals are gone, the response stays
Finished(hr, resp) ==
  [hr EXCEPT !.pc = "done", !.must_wait = FALSE, !.i = 0, !.client = 0,
             !.req = NoRequest, !.resp = resp]

\* the record of a monitor coroutine: its arguments and its locals
TaskRecord(st, duration, seq, balance) ==
  [pc |-> "sleep", seq |-> seq, trade_id |-> st.last_trade_id,
   duration |-> duration, asset |-> st.asset, direction |-> st.direction,
   invested_amount |-> st.current_amount,
   balance_before_this_trade |-> balance,
   i |-> 0, client |-> 0, profit |-> Null, current_balance |-> Null,
   martingale_reentry_needed |-> "unset", assumed_loss |-> FALSE,
   req |-> NoRequest]

\* a monitor that polls the broker from the start
NewTaskPolling(st, duration, seq) ==
  [TaskRecord(st, duration, seq, st.balance_before_current_trade) EXCEPT
     !.pc = "details"]

\* monitor_trade_and_execute_martingale(...) as create_task is given it
NewTask(st, duration, seq) ==
  TaskRecord(st, duration, seq, st.balance_before_current_trade)

\* a coroutine that goes on from where it was instead of ending
NeverEnds(tr, pc) == tr

\* the task's coroutine ends (returns, or dies with an unhandled exception)
Ended(tr, pc) ==
  [tr EXCEPT !.pc = pc, !.i = 0, !.client = 0, !.req = NoRequest,
             !.trade_id = Null, !.asset = None, !.direction = None,
             !.invested_amount = 0, !.balance_before_this_trade = Null,
             !.profit = Null, !.current_balance = Null]

\* the broker accepts an order only from a connected client and within MaxOrders
PlaceOutcomes(c) ==
  (IF CanSucceed(c) /\ Len(orders) < MaxOrders THEN {"ok"} ELSE {}) \cup
  (IF ~(CanSucceed(c) /\ Len(orders) < MaxOrders) \/ faults < MaxFaults
     THEN {"raise"} ELSE {})

PlaceFaultsAfter(c, outcome) ==
  IF outcome # "ok" /\ CanSucceed(c) /\ Len(orders) < MaxOrders
    THEN faults + 1 ELSE faults

PlacedOrder(req, seq) ==
  [order_id |-> Len(orders) + 1, asset |-> req.asset, amount |-> req.amount,
   direction |-> req.direction, duration |-> req.duration, seq |-> seq]

\* the results one get_balance call on c can have: "raise", or a report
BalanceResults(c, values) ==
  (IF "raise" \in RpcOutcomes(c) THEN {BalanceRaise} ELSE {}) \cup
  (IF "ok" \in RpcOutcomes(c)
     THEN {r \in BalanceReports(values) : IsValidBalance(r) \/ faults < MaxFaults}
     ELSE {})

BalanceOk(r) == ~r.raised /\ IsValidBalance(r)

BalanceFaultsAfter(c, r) ==
  IF ~BalanceOk(r) /\ CanSucceed(c) THEN faults + 1 ELSE faults

\* the results one check_order_result call on c can have
DetailResults(c, amount) ==
  (IF "raise" \in RpcOutcomes(c) THEN {DetailRaise} ELSE {}) \cup
  (IF "ok" \in RpcOutcomes(c)
     THEN {d \in DetailReports(amount) : HasProfit(d) \/ faults < MaxFaults}
     ELSE {})

DetailOk(d) == ~d.raised /\ HasProfit(d)

DetailFaultsAfter(c, d) ==
  IF ~DetailOk(d) /\ CanSucceed(c) THEN faults + 1 ELSE faults

----------------------------------------------------------------------------
(* State changes shared by the actions *)

SetGlobals(g, st) ==
  /\ is_processing_trade_sequence' = g
  /\ trade_sequence_state' = st

SetHandler(h, hr) == handlers' = [handlers EXCEPT ![h] = hr]

SetTask(t, tr) == tasks' = [tasks EXCEPT ![t] = tr]

\* reset_trade_sequence_state(), trader.py lines 420-432, from dictionary st
reset_trade_sequence_state(st) ==
  SetGlobals(ResetGate(is_processing_trade_sequence), ResetState(st))

\* the handle the next call is made on: the global, read at the call
ClientUsable == pocket_option_client # 0 /\ pocket_option_client \in is_connected

\* requests are numbered in the order they arrive: h is the next one
IsNextRequest(h) ==
  /\ handlers[h].pc = "new"
  /\ \A g \in Handlers : g < h => handlers[g].pc # "new"

----------------------------------------------------------------------------
(* trader.py: trade_signal_webhook *)

\* lines 139-152 up to the first await: the gate check, then either the
\* synchronous part of connect_pocket_option_client (lines 271-285) or
\* the call of request.body()
Trader_Webhook_Arrive(h) ==
  /\ impl = "trader"
  /\ IsNextRequest(h)
  /\ IF GateHeld(is_processing_trade_sequence)
       THEN /\ SetHandler(h, Finished(handlers[h], Response("ignored")))
            /\ UNCHANGED <<pocket_option_client, client_objs>>
       ELSE IF ~ClientUsable
         THEN IF ~env_ok
           THEN /\ SetHandler(h, Finished(handlers[h], Response("503")))
                /\ UNCHANGED <<pocket_option_client, client_objs>>
           ELSE LET made == pocket_option_client = 0
                    c == IF made THEN client_objs + 1 ELSE pocket_option_client
                IN /\ pocket_option_client' = c
                   /\ client_objs' = IF made THEN client_objs + 1 ELSE client_objs
                   /\ SetHandler(h, [handlers[h] EXCEPT !.pc = "connect", !.client = c])
         ELSE /\ SetHandler(h, [handlers[h] EXCEPT !.pc = "body"])
              /\ UNCHANGED <<pocket_option_client, client_objs>>
  /\ UNCHANGED <<impl, env_ok, is_processing_trade_sequence, trade_sequence_state,
                 is_connected, tasks, orders, faults>>

\* a failed connect that keeps the handle
HandleKept(c) == c

\* lines 287-290: the handle after connect() raised on client object c
HandleAfterFailedConnect(c) == 0

\* lines 285-290 and 148-152: connect() returns or raises
Trader_Webhook_ConnectReturn(h) ==
  /\ impl = "trader"
  /\ handlers[h].pc = "connect"
  /\ \E ok \in BOOLEAN :
       /\ ~ok => faults < MaxFaults
       /\ IF ok
            THEN /\ is_connected' = is_connected \cup {handlers[h].client}
                 /\ SetHandler(h, [handlers[h] EXCEPT !.pc = "body", !.client = 0])
                 /\ UNCHANGED <<pocket_option_client, faults>>
            ELSE /\ pocket_option_client' = HandleAfterFailedConnect(handlers[h].client)
                 /\ faults' = faults + 1
                 /\ SetHandler(h, Finished(handlers[h], Response("503")))
                 /\ UNCHANGED is_connected
  /\ UNCHANGED <<impl, env_ok, is_processing_trade_sequence, trade_sequence_state,
                 client_objs, tasks, orders>>

\* lines 224-230: the call of place_order from the webhook, with the
\* dictionary st; on None the attribute lookup raises into lines 261-265
Trader_Webhook_PlaceCall(h, hr, st) ==
  IF pocket_option_client = 0
    THEN /\ reset_trade_sequence_state(st)
         /\ SetHandler(h, Finished(hr, Response("500")))
    ELSE /\ SetGlobals(is_processing_trade_sequence, st)
         /\ SetHandler(h, [hr EXCEPT !.pc = "placing", !.i = 0,
                                     !.client = pocket_option_client,
                                     !.req = OrderRequest(st,
                                              trade_duration(GoodSignal(h)))])

\* lines 154-208: request.body() returns; parse, validate, resolve the entry
\* time, late check, then acquire the gate and call get_valid_balance
Trader_Webhook_BodyReturn(h) ==
  /\ impl = "trader"
  /\ handlers[h].pc = "body"
  /\ \E p \in ParsedData(h), ttw \in TimeToWaitValues :
       IF MissingEssential(p) \/ ~ValidDirection(p.direction)
          \/ ~ValidEntryTime(p.entryTime)
         THEN /\ SetHandler(h, [Finished(handlers[h], Response("400")) EXCEPT
                                  !.parsed = Some(p)])
              /\ UNCHANGED <<is_processing_trade_sequence, trade_sequence_state>>
         ELSE IF IsLate(ttw)
           THEN /\ SetHandler(h, [Finished(handlers[h], Response("skipped")) EXCEPT
                                    !.parsed = Some(p), !.ttw = Some(ttw)])
                /\ UNCHANGED <<is_processing_trade_sequence, trade_sequence_state>>
           ELSE /\ SetGlobals(TRUE, NewSequenceState(trade_sequence_state,
                                      p.asset_name_for_po, Upper(p.direction)))
                /\ SetHandler(h, [handlers[h] EXCEPT
                                    !.pc = "bal_before", !.acquired = TRUE,
                                    !.must_wait = MustWait(ttw), !.i = 0,
                                    !.client = pocket_option_client,
                                    !.parsed = Some(p), !.ttw = Some(ttw)])
  /\ UNCHANGED <<impl, env_ok, pocket_option_client, is_connected, client_objs,
                 tasks, orders, faults>>

\* lines 208-230: one attempt of get_valid_balance("before_initial_trade")
\* returns; then the snapshot, the wait or the call of place_order
Trader_Webhook_BalanceBefore(h) ==
  /\ impl = "trader"
  /\ handlers[h].pc = "bal_before"
  /\ \E r \in BalanceResults(handlers[h].client, {BaseBalance}) :
     LET hr == PastValidation(handlers[h])
     IN
       /\ faults' = BalanceFaultsAfter(hr.client, r)
       /\ IF BalanceOk(r)
            THEN LET st == [trade_sequence_state EXCEPT
                              !.balance_before_current_trade = r.balance]
                 IN IF hr.must_wait
                      THEN /\ SetGlobals(is_processing_trade_sequence, st)
                           /\ SetHandler(h, [hr EXCEPT !.pc = "wait",
                                                !.i = 0, !.client = 0])
                      ELSE Trader_Webhook_PlaceCall(h, hr, st)
            ELSE IF BalanceExhausted(hr.i)
              THEN /\ reset_trade_sequence_state(trade_sequence_state)
                   /\ SetHandler(h, Finished(hr, Response("503")))
              ELSE /\ SetHandler(h, [hr EXCEPT !.i = @ + 1])
                   /\ UNCHANGED <<is_processing_trade_sequence, trade_sequence_state>>
  /\ UNCHANGED <<impl, env_ok, pocket_option_client, is_connected, client_objs,
                 tasks, orders>>

\* lines 217-230: asyncio.sleep(time_to_wait_seconds) is over
Trader_Webhook_EntryTimeReached(h) ==
  /\ impl = "trader"
  /\ handlers[h].pc = "wait"
  /\ Trader_Webhook_PlaceCall(h, handlers[h], trade_sequence_state)
  /\ UNCHANGED <<impl, env_ok, pocket_option_client, is_connected, client_objs,
                 tasks, orders, faults>>

\* lines 225-236 and 261-265: place_order returns or raises
Trader_Webhook_PlaceReturn(h) ==
  /\ impl = "trader"
  /\ handlers[h].pc = "placing"
  /\ \E outcome \in PlaceOutcomes(handlers[h].client) :
       /\ faults' = PlaceFaultsAfter(handlers[h].client, outcome)
       /\ IF outcome = "ok"
            THEN LET o == PlacedOrder(handlers[h].req, h)
                 IN /\ orders' = Append(orders, o)
                    /\ SetGlobals(is_processing_trade_sequence,
                                  [trade_sequence_state EXCEPT
                                     !.last_trade_id = Some(o.order_id)])
                    /\ SetHandler(h, [handlers[h] EXCEPT !.pc = "bal_after", !.i = 0,
                                        !.client = pocket_option_client,
                                        !.req = NoRequest])
            ELSE /\ reset_trade_sequence_state(trade_sequence_state)
                 /\ SetHandler(h, Finished(handlers[h], Response("500")))
                 /\ UNCHANGED orders
  /\ UNCHANGED <<impl, env_ok, pocket_option_client, is_connected, client_objs, tasks>>

\* lines 236-265: one attempt of get_valid_balance("after_initial_trade_placement")
\* returns (its result is only logged); then create_task and the response.
\* Reading direction.value for the response raises on None, into lines 261-265
Trader_Webhook_BalanceAfter(h) ==
  /\ impl = "trader"
  /\ handlers[h].pc = "bal_after"
  /\ \E r \in BalanceResults(handlers[h].client, {BaseBalance}) :
       /\ faults' = BalanceFaultsAfter(handlers[h].client, r)
       /\ IF BalanceOk(r) \/ BalanceExhausted(handlers[h].i)
            THEN /\ tasks' = Append(tasks, NewTask(trade_sequence_state,
                                       trade_duration(GoodSignal(h)), h))
                 /\ IF trade_sequence_state.direction = None
                      THEN /\ reset_trade_sequence_state(trade_sequence_state)
                           /\ SetHandler(h, Finished(handlers[h], Response("500")))
                      ELSE /\ SetHandler(h, Finished(handlers[h],
                                          AcceptedResponse(trade_sequence_state)))
                           /\ UNCHANGED <<is_processing_trade_sequence,
                                          trade_sequence_state>>
            ELSE /\ SetHandler(h, [handlers[h] EXCEPT !.i = @ + 1])
                 /\ UNCHANGED <<is_processing_trade_sequence, trade_sequence_state,
                                tasks>>
  /\ UNCHANGED <<impl, env_ok, pocket_option_client, is_connected, client_objs, orders>>

----------------------------------------------------------------------------
(* trader.py: monitor_trade_and_execute_martingale, execute_martingale_or_reset *)

Tasks == 1..Len(tasks)

\* execute_martingale_or_reset, lines 371-385 and 409-417, up to its first
\* await, from dictionary st.  The log line 377 reads direction.value of the
\* task's own argument outside the try: on None the task dies there
execute_martingale_or_reset(t, tr, st, martingale_reentry_needed) ==
  IF martingale_reentry_needed /\ CanReenter(st.current_level)
    THEN LET st2 == [st EXCEPT !.current_level = NextLevel(@),
                               !.current_amount = NextAmount(@)]
         IN IF tr.direction = None
              THEN /\ SetGlobals(is_processing_trade_sequence, st2)
                   /\ SetTask(t, Ended(tr, "crashed"))
              ELSE IF pocket_option_client = 0
                THEN /\ reset_trade_sequence_state(st2)
                     /\ SetTask(t, Ended(tr, "done"))
                ELSE /\ SetGlobals(is_processing_trade_sequence, st2)
                     /\ SetTask(t, [tr EXCEPT !.pc = "placing", !.i = 0,
                                      !.client = pocket_option_client,
                                      !.req = OrderRequest(st2, tr.duration)])
    ELSE /\ reset_trade_sequence_state(st)
         /\ SetTask(t, Ended(tr, "done"))

\* lines 298-307: asyncio.sleep(duration) is over; first check_order_result
Trader_Monitor_DurationElapsed(t) ==
  /\ impl = "trader"
  /\ tasks[t].pc = "sleep"
  /\ SetTask(t, [tasks[t] EXCEPT !.pc = "details", !.i = 0,
                                 !.client = pocket_option_client])
  /\ UNCHANGED <<impl, env_ok, is_processing_trade_sequence, trade_sequence_state,
                 pocket_option_client, is_connected, client_objs, handlers,
                 orders, faults>>

\* lines 305-329: one attempt of check_order_result returns; with a profit
\* go on to get_valid_balance, after the last attempt assume loss
Trader_Monitor_Details(t) ==
  /\ impl = "trader"
  /\ tasks[t].pc = "details"
  /\ \E d \in DetailResults(tasks[t].client, tasks[t].invested_amount) :
       /\ faults' = DetailFaultsAfter(tasks[t].client, d)
       /\ IF DetailOk(d)
            THEN /\ SetTask(t, [tasks[t] EXCEPT !.pc = "bal_outcome", !.i = 0,
                                   !.profit = d.profit,
                                   !.client = pocket_option_client])
                 /\ UNCHANGED <<is_processing_trade_sequence, trade_sequence_state>>
            ELSE IF DetailsExhausted(tasks[t].i)
              THEN LET tr == [tasks[t] EXCEPT !.martingale_reentry_needed = "True",
                                          !.assumed_loss = TRUE]
                   IN IF tr.balance_before_this_trade = Null
                        THEN /\ SetTask(t, Ended(tr, "crashed"))
                             /\ UNCHANGED <<is_processing_trade_sequence,
                                            trade_sequence_state>>
                        ELSE execute_martingale_or_reset(t, tr,
                               [trade_sequence_state EXCEPT
                                  !.balance_before_current_trade =
                                     Some(tr.balance_before_this_trade[1]
                                          - tr.invested_amount)],
                               TRUE)
              ELSE /\ SetTask(t, [tasks[t] EXCEPT !.i = @ + 1,
                                     !.client = pocket_option_client])
                   /\ UNCHANGED <<is_processing_trade_sequence, trade_sequence_state>>
  /\ UNCHANGED <<impl, env_ok, pocket_option_client, is_connected, client_objs,
                 handlers, orders>>

\* the balances the environment may report to the monitor of task record tr
MonitorBalances(tr) ==
  IF tr.balance_before_this_trade = Null \/ tr.profit = Null
    THEN {BaseBalance}
    ELSE OutcomeBalances(tr.balance_before_this_trade[1], tr.invested_amount,
                         tr.profit[1])

\* lines 337-360: the locals of the monitor after it has decided by the valid
\* balance report r
DecidedTask(tr, r, below) ==
  [tr EXCEPT
     !.current_balance = r.balance,
     !.martingale_reentry_needed =
        IF ReentryNeeded(r.balance[1], tr.balance_before_this_trade[1],
                         tr.invested_amount, tr.profit[1], below)
          THEN "True" ELSE "False"]

\* lines 351-363: the dictionary after the monitor tr has decided by report r
DecidedState(st, tr, r, below) ==
  [st EXCEPT
     !.last_trade_status = StatusOf(r.balance[1], tr.balance_before_this_trade[1],
                                    tr.invested_amount, tr.profit[1], below),
     !.balance_before_current_trade = r.balance]

\* lines 329-365: one attempt of get_valid_balance("after_trade") returns;
\* with a balance decide by the balance change, after the last attempt
\* assume loss; then execute_martingale_or_reset
Trader_Monitor_BalanceOutcome(t) ==
  /\ impl = "trader"
  /\ tasks[t].pc = "bal_outcome"
  /\ \E r \in BalanceResults(tasks[t].client, MonitorBalances(tasks[t])) :
       /\ faults' = BalanceFaultsAfter(tasks[t].client, r)
       /\ IF BalanceOk(r)
            THEN IF tasks[t].balance_before_this_trade = Null
              THEN /\ SetTask(t, Ended([tasks[t] EXCEPT !.current_balance = r.balance],
                                       "crashed"))
                   /\ UNCHANGED <<is_processing_trade_sequence, trade_sequence_state>>
              ELSE \E below \in Roundings :
                     LET tr == DecidedTask(tasks[t], r, below)
                     IN execute_martingale_or_reset(t, tr,
                          DecidedState(trade_sequence_state, tasks[t], r, below),
                          tr.martingale_reentry_needed = "True")
            ELSE IF BalanceExhausted(tasks[t].i)
              THEN LET tr == [tasks[t] EXCEPT !.martingale_reentry_needed = "True",
                                          !.assumed_loss = TRUE]
                   IN IF tr.balance_before_this_trade = Null
                        THEN /\ SetTask(t, Ended(tr, "crashed"))
                             /\ UNCHANGED <<is_processing_trade_sequence,
                                            trade_sequence_state>>
                        ELSE execute_martingale_or_reset(t, tr,
                               [trade_sequence_state EXCEPT
                                  !.balance_before_current_trade =
                                     Some(tr.balance_before_this_trade[1]
                                          - tr.invested_amount)],
                               TRUE)
              ELSE /\ SetTask(t, [tasks[t] EXCEPT !.i = @ + 1])
                   /\ UNCHANGED <<is_processing_trade_sequence, trade_sequence_state>>
  /\ UNCHANGED <<impl, env_ok, pocket_option_client, is_connected, client_objs,
                 handlers, orders>>

\* lines 380-390 and 409-411: the re-entry place_order returns or raises
Trader_Monitor_PlaceReturn(t) ==
  /\ impl = "trader"
  /\ tasks[t].pc = "placing"
  /\ \E outcome \in PlaceOutcomes(tasks[t].client) :
       /\ faults' = PlaceFaultsAfter(tasks[t].client, outcome)
       /\ IF outcome = "ok"
            THEN LET o == PlacedOrder(tasks[t].req, tasks[t].seq)
                 IN /\ orders' = Append(orders, o)
                    /\ SetGlobals(is_processing_trade_sequence,
                                  [trade_sequence_state EXCEPT
                                     !.last_trade_id = Some(o.order_id)])
                    /\ SetTask(t, [tasks[t] EXCEPT !.pc = "bal_placed", !.i = 0,
                                     !.client = pocket_option_client,
                                     !.req = NoRequest])
            ELSE /\ reset_trade_sequence_state(trade_sequence_state)
                 /\ SetTask(t, Ended(tasks[t], "done"))
                 /\ UNCHANGED orders
  /\ UNCHANGED <<impl, env_ok, pocket_option_client, is_connected, client_objs,
                 handlers>>

\* lines 390-408: one attempt of get_valid_balance("after_martingale_placement")
\* returns; with a balance store it as the next snapshot; then create_task
\* for the new trade, and this task ends
Trader_Monitor_BalancePlaced(t) ==
  /\ impl = "trader"
  /\ tasks[t].pc = "bal_placed"
  /\ \E r \in BalanceResults(tasks[t].client, {BaseBalance}) :
       /\ faults' = BalanceFaultsAfter(tasks[t].client, r)
       /\ IF BalanceOk(r) \/ BalanceExhausted(tasks[t].i)
            THEN LET st == IF BalanceOk(r)
                             THEN [trade_sequence_state EXCEPT
                                     !.balance_before_current_trade = r.balance]
                             ELSE trade_sequence_state
                 IN /\ SetGlobals(is_processing_trade_sequence, st)
                    /\ tasks' = Append([tasks EXCEPT ![t] = Ended(@, "done")],
                                       NewTask(st, tasks[t].duration, tasks[t].seq))
            ELSE /\ SetTask(t, [tasks[t] EXCEPT !.i = @ + 1])
                 /\ UNCHANGED <<is_processing_trade_sequence, trade_sequence_state>>
  /\ UNCHANGED <<impl, env_ok, pocket_option_client, is_connected, client_objs,
                 handlers, orders>>

----------------------------------------------------------------------------
(* main.py: the dictionary *)

\* dict.update: the keys of r are set in d, added when absent
Update(d, r) ==
  [x \in DOMAIN d \cup DOMAIN r |-> IF x \in DOMAIN r THEN r[x] ELSE d[x]]

\* main.py, lines 40-50: the dictionary as the module builds it
MainDefaultState ==
  [active |-> FALSE, asset |-> None, direction |-> None, current_level |-> 0,
   current_amount |-> INITIAL_TRADE_AMOUNT, last_trade_id |-> Null,
   last_trade_status |-> None, profit |-> Null, current_balance |-> Null]

\* main.py, lines 212-222
MainNewSequenceState(st, asset, direction) ==
  Update(st, [active |-> TRUE, asset |-> asset, direction |-> direction,
              current_level |-> 0, current_amount |-> INITIAL_TRADE_AMOUNT,
              last_trade_id |-> Null, last_trade_status |-> "pending",
              last_trade_open_time |-> None, current_balance |-> Null])

\* main.py, lines 290-295: the webhook's reset after a failure
MainResetAfterInitialFailure(st) ==
  Update(st, [active |-> FALSE, current_level |-> 0,
              current_amount |-> INITIAL_TRADE_AMOUNT,
              last_trade_open_price |-> Null, last_trade_open_time |-> None,
              last_trade_status |-> None])

\* main.py, lines 459-462: the monitor's reset after a failed re-entry
MainResetAfterPlaceFailure(st) ==
  Update(st, [active |-> FALSE, current_level |-> 0,
              current_amount |-> INITIAL_TRADE_AMOUNT,
              last_trade_open_price |-> Null])

\* main.py, lines 467-471: the monitor's reset after a loss at the last level
MainResetAfterMaxLoss(st) ==
  Update(st, [active |-> FALSE, current_level |-> 0,
              current_amount |-> INITIAL_TRADE_AMOUNT,
              last_trade_open_price |-> Null, last_trade_status |-> "Loss"])

\* main.py, lines 476-481: the monitor's reset after a win
MainResetAfterWin(st) ==
  Update(st, [active |-> FALSE, current_level |-> 0,
              current_amount |-> INITIAL_TRADE_AMOUNT,
              last_trade_open_price |-> Null, last_trade_status |-> "win"])

\* main.py, lines 296, 463, 472, 482: is_processing_trade_sequence = False
MainReleaseGate(g) == FALSE

\* main.py, line 182: range(10) latency samples, one second apart
LATENCY_SAMPLES == 10
\* main.py, lines 242, 375, 418, 432: range(3)
MAIN_RETRIES == 3

\* main.py, line 199: time_to_wait_seconds > 0
MainMustWait(ttw) == ttw > 0

\* what check_order_result returns in main.py: None, or details whose
\* amount is empty or the order's amount
MainDetailReports(amount) ==
  {[raised |-> FALSE, obj |-> FALSE, amount |-> Null],
   [raised |-> FALSE, obj |-> TRUE, amount |-> Null],
   [raised |-> FALSE, obj |-> TRUE, amount |-> Some(amount)]}

MainDetailRaise == [raised |-> TRUE, obj |-> FALSE, amount |-> Null]

\* main.py, lines 246 and 421
MainHasAmount(d) == ~d.raised /\ d.obj /\ d.amount # Null

MainDetailResults(c, amount) ==
  (IF "raise" \in RpcOutcomes(c) THEN {MainDetailRaise} ELSE {}) \cup
  (IF "ok" \in RpcOutcomes(c)
     THEN {d \in MainDetailReports(amount) : MainHasAmount(d) \/ faults < MaxFaults}
     ELSE {})

MainDetailFaultsAfter(c, d) ==
  IF ~MainHasAmount(d) /\ CanSucceed(c) THEN faults + 1 ELSE faults

\* main.py, lines 247-248 and 422-423
MainWithOpenPrice(st, d) ==
  Update(st, [last_trade_open_price |-> d.amount,
              last_trade_open_time |-> "placed_at"])

\* handle_trade_outcome_and_martingale(...) as create_task is given it; the
\* coroutine's first line (362) reads direction.value and dies on None
MainNewTask(st, duration, seq) ==
  IF st.direction = None
    THEN Ended(TaskRecord(st, duration, seq, st.current_balance), "crashed")
    ELSE TaskRecord(st, duration, seq, st.current_balance)

----------------------------------------------------------------------------
(* main.py: trade_signal_webhook *)

\* lines 113-135 up to the first await: get_connection_stats() on the handle
\* (an AttributeError on None, answered 500), the gate check, then the
\* synchronous part of connect_pocket_option_client or request.body()
Main_Webhook_Arrive(h) ==
  /\ impl = "main"
  /\ IsNextRequest(h)
  /\ IF pocket_option_client = 0
       THEN SetHandler(h, Finished(handlers[h], Response("500")))
       ELSE IF GateHeld(is_processing_trade_sequence)
         THEN SetHandler(h, Finished(handlers[h], Response("ignored")))
         ELSE IF ~ClientUsable
           THEN IF ~env_ok
             THEN SetHandler(h, Finished(handlers[h], Response("503")))
             ELSE SetHandler(h, [handlers[h] EXCEPT !.pc = "connect",
                                    !.client = pocket_option_client])
           ELSE SetHandler(h, [handlers[h] EXCEPT !.pc = "body"])
  /\ UNCHANGED <<impl, env_ok, is_processing_trade_sequence, trade_sequence_state,
                 pocket_option_client, is_connected, client_objs, tasks, orders,
                 faults>>

\* lines 325-331 and 128-132: connect() returns or raises
Main_Webhook_ConnectReturn(h) ==
  /\ impl = "main"
  /\ handlers[h].pc = "connect"
  /\ \E ok \in BOOLEAN :
       /\ ~ok => faults < MaxFaults
       /\ IF ok
            THEN /\ is_connected' = is_connected \cup {handlers[h].client}
                 /\ SetHandler(h, [handlers[h] EXCEPT !.pc = "body", !.client = 0])
                 /\ UNCHANGED <<pocket_option_client, faults>>
            ELSE /\ pocket_option_client' = 0
                 /\ faults' = faults + 1
                 /\ SetHandler(h, Finished(handlers[h], Response("503")))
                 /\ UNCHANGED is_connected
  /\ UNCHANGED <<impl, env_ok, is_processing_trade_sequence, trade_sequence_state,
                 client_objs, tasks, orders>>

\* lines 135-190: request.body() returns; parse, validate, resolve the entry
\* time, late check; then the first latency sample and its sleep
Main_Webhook_BodyReturn(h) ==
  /\ impl = "main"
  /\ handlers[h].pc = "body"
  /\ \E p \in ParsedData(h), ttw \in TimeToWaitValues :
       IF MissingEssential(p) \/ ~ValidDirection(p.direction)
          \/ ~ValidEntryTime(p.entryTime)
         THEN SetHandler(h, [Finished(handlers[h], Response("400")) EXCEPT
                               !.parsed = Some(p)])
         ELSE IF IsLate(ttw)
           THEN SetHandler(h, [Finished(handlers[h], Response("skipped")) EXCEPT
                                 !.parsed = Some(p), !.ttw = Some(ttw)])
           ELSE SetHandler(h, [handlers[h] EXCEPT !.pc = "latency", !.i = 0,
                                 !.parsed = Some(p), !.ttw = Some(ttw)])
  /\ UNCHANGED <<impl, env_ok, is_processing_trade_sequence, trade_sequence_state,
                 pocket_option_client, is_connected, client_objs, tasks, orders,
                 faults>>

\* lines 287-297: the except branch of the webhook, from dictionary st
Main_Webhook_Failure(h, hr, st) ==
  /\ SetGlobals(MainReleaseGate(is_processing_trade_sequence),
                MainResetAfterInitialFailure(st))
  /\ SetHandler(h, Finished(hr, Response("500")))

\* lines 212-230: the update of the dictionary and the call of place_order
Main_Webhook_PlaceCall(h, hr, g) ==
  LET sig == GoodSignal(h)
      st == MainNewSequenceState(trade_sequence_state, sig.asset_name_for_po,
                                 Upper(sig.direction))
  IN IF pocket_option_client = 0
       THEN Main_Webhook_Failure(h, hr, st)
       ELSE /\ SetGlobals(g, st)
            /\ SetHandler(h, [hr EXCEPT !.pc = "placing", !.i = 0,
                                !.client = pocket_option_client,
                                !.req = OrderRequest(st, trade_duration(sig))])

\* lines 206-210: the call of get_balance before the initial trade; on None
\* the AttributeError is caught and the handler goes on to line 212
Main_Webhook_BalanceCall(h, hr, g) ==
  IF pocket_option_client = 0
    THEN Main_Webhook_PlaceCall(h, hr, g)
    ELSE /\ SetGlobals(g, trade_sequence_state)
         /\ SetHandler(h, [hr EXCEPT !.pc = "bal_before", !.i = 0,
                             !.client = pocket_option_client])

\* the wait the handler computes at line 192, after the latency samples: they
\* took at least LATENCY_SAMPLES seconds, so there is time left only for a
\* request that arrived more than that before its entry time
MainTimeToWaitValues(ttw) ==
  {v \in {0 - 1, 0, 1} : ttw <= LATENCY_SAMPLES * 100 => v < 0}

\* lines 182-207: a latency sleep is over; after the last one the wait is
\* computed and the gate is set (line 197)
Main_Webhook_Latency(h) ==
  /\ impl = "main"
  /\ handlers[h].pc = "latency"
  /\ IF handlers[h].i + 1 < LATENCY_SAMPLES
       THEN /\ SetHandler(h, [handlers[h] EXCEPT !.i = @ + 1])
            /\ UNCHANGED <<is_processing_trade_sequence, trade_sequence_state>>
       ELSE \E ttw \in MainTimeToWaitValues(handlers[h].ttw[1]) :
              LET hr == [PastValidation(handlers[h]) EXCEPT
                           !.acquired = TRUE, !.i = 0]
              IN IF MainMustWait(ttw)
                   THEN /\ SetGlobals(TRUE, trade_sequence_state)
                        /\ SetHandler(h, [hr EXCEPT !.pc = "wait"])
                   ELSE Main_Webhook_BalanceCall(h, hr, TRUE)
  /\ UNCHANGED <<impl, env_ok, pocket_option_client, is_connected, client_objs,
                 tasks, orders, faults>>

\* lines 199-207: asyncio.sleep(time_to_wait_seconds) is over
Main_Webhook_EntryTimeReached(h) ==
  /\ impl = "main"
  /\ handlers[h].pc = "wait"
  /\ Main_Webhook_BalanceCall(h, handlers[h], is_processing_trade_sequence)
  /\ UNCHANGED <<impl, env_ok, pocket_option_client, is_connected, client_objs,
                 tasks, orders, faults>>

\* lines 207-230: get_balance returns or raises (it is only logged)
Main_Webhook_BalanceBefore(h) ==
  /\ impl = "main"
  /\ handlers[h].pc = "bal_before"
  /\ \E r \in BalanceResults(handlers[h].client, {BaseBalance}) :
       /\ faults' = BalanceFaultsAfter(handlers[h].client, r)
       /\ Main_Webhook_PlaceCall(h, handlers[h], is_processing_trade_sequence)
  /\ UNCHANGED <<impl, env_ok, pocket_option_client, is_connected, client_objs,
                 tasks, orders>>

\* lines 225-244 and 287-297: place_order returns or raises
Main_Webhook_PlaceReturn(h) ==
  /\ impl = "main"
  /\ handlers[h].pc = "placing"
  /\ \E outcome \in PlaceOutcomes(handlers[h].client) :
       /\ faults' = PlaceFaultsAfter(handlers[h].client, outcome)
       /\ IF outcome = "ok"
            THEN LET o == PlacedOrder(handlers[h].req, h)
                 IN /\ orders' = Append(orders, o)
                    /\ SetGlobals(is_processing_trade_sequence,
                                  [trade_sequence_state EXCEPT
                                     !.last_trade_id = Some(o.order_id)])
                    /\ SetHandler(h, [handlers[h] EXCEPT !.pc = "details", !.i = 0,
                                        !.client = pocket_option_client,
                                        !.req = NoRequest])
            ELSE /\ Main_Webhook_Failure(h, handlers[h], trade_sequence_state)
                 /\ UNCHANGED orders
  /\ UNCHANGED <<impl, env_ok, pocket_option_client, is_connected, client_objs, tasks>>

\* lines 255-261: the read of last_trade_open_price (a KeyError when the key
\* was never set) and the call of get_balance, from dictionary st
Main_Webhook_AfterDetails(h, st) ==
  IF "last_trade_open_price" \notin DOMAIN st \/ pocket_option_client = 0
    THEN Main_Webhook_Failure(h, handlers[h], st)
    ELSE /\ SetGlobals(is_processing_trade_sequence, st)
         /\ SetHandler(h, [handlers[h] EXCEPT !.pc = "bal_after", !.i = 0,
                             !.client = pocket_option_client])

\* lines 242-261: one attempt of check_order_result returns or raises
Main_Webhook_Details(h) ==
  /\ impl = "main"
  /\ handlers[h].pc = "details"
  /\ \E d \in MainDetailResults(handlers[h].client,
                                trade_sequence_state.current_amount) :
       /\ faults' = MainDetailFaultsAfter(handlers[h].client, d)
       /\ IF MainHasAmount(d)
            THEN Main_Webhook_AfterDetails(h, MainWithOpenPrice(trade_sequence_state, d))
            ELSE IF handlers[h].i + 1 < MAIN_RETRIES
              THEN /\ SetHandler(h, [handlers[h] EXCEPT !.i = @ + 1,
                                        !.client = pocket_option_client])
                   /\ UNCHANGED <<is_processing_trade_sequence, trade_sequence_state>>
              ELSE Main_Webhook_AfterDetails(h, trade_sequence_state)
  /\ UNCHANGED <<impl, env_ok, pocket_option_client, is_connected, client_objs,
                 tasks, orders>>

\* lines 261-297: get_balance returns or raises; the balance is stored
\* unchecked, the monitor task is created, the response is built
Main_Webhook_BalanceAfter(h) ==
  /\ impl = "main"
  /\ handlers[h].pc = "bal_after"
  /\ \E r \in BalanceResults(handlers[h].client, {BaseBalance}) :
       /\ faults' = BalanceFaultsAfter(handlers[h].client, r)
       /\ IF r.raised \/ ~r.obj
            THEN /\ Main_Webhook_Failure(h, handlers[h], trade_sequence_state)
                 /\ UNCHANGED tasks
            ELSE LET st == [trade_sequence_state EXCEPT !.current_balance = r.balance]
                 IN /\ tasks' = Append(tasks, MainNewTask(st,
                                          trade_duration(GoodSignal(h)), h))
                    /\ IF st.direction = None
                         THEN Main_Webhook_Failure(h, handlers[h], st)
                         ELSE /\ SetGlobals(is_processing_trade_sequence, st)
                              /\ SetHandler(h, Finished(handlers[h],
                                                        AcceptedResponse(st)))
  /\ UNCHANGED <<impl, env_ok, pocket_option_client, is_connected, client_objs, orders>>

----------------------------------------------------------------------------
(* main.py: handle_trade_outcome_and_martingale *)

\* lines 384-392: the decision; cur is the local current_balance (Null while
\* unbound), after is after_entry_balance.  Every exception of the block
\* leaves martingale_reentry_needed False
MainReentryNeeded(cur, after) ==
  IF cur = Null THEN FALSE
  ELSE IF ~cur[1].obj THEN FALSE
  ELSE IF cur[1].balance = Null THEN FALSE
  ELSE IF after = Null THEN FALSE
  ELSE ~(cur[1].balance[1] > after[1])

\* line 378-380: the report ends the loop
MainBalanceSettled(r, after) ==
  ~r.raised /\ IsValidBalance(r) /\ r.balance # after

\* range(3): attempt i (0-based) was the last one
MainExhausted(i) == i + 1 >= MAIN_RETRIES

\* the balances the broker may report when the trade is over: the balance
\* after entry (loss) or that plus stake and payout (win)
MainOutcomeBalances(tr) ==
  IF tr.balance_before_this_trade = Null
    THEN {BaseBalance}
    ELSE {tr.balance_before_this_trade[1],
          tr.balance_before_this_trade[1] + tr.invested_amount
            + (tr.invested_amount * PayoutPct) \div 100}

\* the coroutine is past its decision: only after_entry_balance is read later
MainTail(tr) ==
  [Ended(tr, "tail_sleep") EXCEPT
     !.balance_before_this_trade = tr.balance_before_this_trade]

\* lines 398-411 and 455-482, up to the next await, from dictionary st
Main_Monitor_Decide(t, tr, st, martingale_reentry_needed) ==
  IF martingale_reentry_needed
    THEN IF CanReenter(st.current_level)
      THEN LET st2 == [st EXCEPT !.current_level = NextLevel(@),
                                 !.current_amount = NextAmount(@)]
           IN IF pocket_option_client = 0
                THEN /\ SetGlobals(MainReleaseGate(is_processing_trade_sequence),
                                   MainResetAfterPlaceFailure(st2))
                     /\ SetTask(t, MainTail(tr))
                ELSE /\ SetGlobals(is_processing_trade_sequence, st2)
                     /\ SetTask(t, [tr EXCEPT !.pc = "placing", !.i = 0,
                                      !.client = pocket_option_client,
                                      !.req = OrderRequest(st2, tr.duration)])
      ELSE /\ SetGlobals(MainReleaseGate(is_processing_trade_sequence),
                         MainResetAfterMaxLoss(st))
           /\ SetTask(t, MainTail(tr))
    ELSE /\ SetGlobals(MainReleaseGate(is_processing_trade_sequence),
                       MainResetAfterWin(st))
         /\ SetTask(t, MainTail(tr))

\* lines 366-377: asyncio.sleep(trade_end_time) is over; first get_balance
Main_Monitor_DurationElapsed(t) ==
  /\ impl = "main"
  /\ tasks[t].pc = "sleep"
  /\ SetTask(t, [tasks[t] EXCEPT !.pc = "bal_outcome", !.i = 0,
                                 !.client = pocket_option_client])
  /\ UNCHANGED <<impl, env_ok, is_processing_trade_sequence, trade_sequence_state,
                 pocket_option_client, is_connected, client_objs, handlers,
                 orders, faults>>

\* lines 375-411 and 455-482: one attempt of get_balance returns or raises;
\* when the loop ends, the decision and the synchronous part of what follows
Main_Monitor_BalanceOutcome(t) ==
  /\ impl = "main"
  /\ tasks[t].pc = "bal_outcome"
  /\ \E r \in BalanceResults(tasks[t].client, MainOutcomeBalances(tasks[t])) :
       /\ faults' = BalanceFaultsAfter(tasks[t].client, r)
       /\ LET cur == IF r.raised THEN tasks[t].current_balance ELSE Some(r)
              after == tasks[t].balance_before_this_trade
          IN IF MainBalanceSettled(r, after) \/ MainExhausted(tasks[t].i)
               THEN LET needed == MainReentryNeeded(cur, after)
                        tr == [tasks[t] EXCEPT
                                 !.martingale_reentry_needed =
                                    IF needed THEN "True" ELSE "False"]
                    IN Main_Monitor_Decide(t, tr, trade_sequence_state, needed)
               ELSE /\ SetTask(t, [tasks[t] EXCEPT !.i = @ + 1,
                                      !.current_balance = cur,
                                      !.client = pocket_option_client])
                    /\ UNCHANGED <<is_processing_trade_sequence, trade_sequence_state>>
  /\ UNCHANGED <<impl, env_ok, pocket_option_client, is_connected, client_objs,
                 handlers, orders>>

\* lines 406-420 and 455-463: the re-entry place_order returns or raises
Main_Monitor_PlaceReturn(t) ==
  /\ impl = "main"
  /\ tasks[t].pc = "placing"
  /\ \E outcome \in PlaceOutcomes(tasks[t].client) :
       /\ faults' = PlaceFaultsAfter(tasks[t].client, outcome)
       /\ IF outcome = "ok"
            THEN LET o == PlacedOrder(tasks[t].req, tasks[t].seq)
                 IN /\ orders' = Append(orders, o)
                    /\ SetGlobals(is_processing_trade_sequence,
                                  [trade_sequence_state EXCEPT
                                     !.last_trade_id = Some(o.order_id)])
                    /\ SetTask(t, [tasks[t] EXCEPT !.pc = "details", !.i = 0,
                                     !.client = pocket_option_client,
                                     !.req = NoRequest])
            ELSE /\ SetGlobals(MainReleaseGate(is_processing_trade_sequence),
                               MainResetAfterPlaceFailure(trade_sequence_state))
                 /\ SetTask(t, MainTail(tasks[t]))
                 /\ UNCHANGED orders
  /\ UNCHANGED <<impl, env_ok, pocket_option_client, is_connected, client_objs,
                 handlers>>

\* lines 418-434: one attempt of check_order_result returns or raises; when
\* the loop ends, the first get_balance of lines 432-441
Main_Monitor_Details(t) ==
  /\ impl = "main"
  /\ tasks[t].pc = "details"
  /\ \E d \in MainDetailResults(tasks[t].client,
                                trade_sequence_state.current_amount) :
       /\ faults' = MainDetailFaultsAfter(tasks[t].client, d)
       /\ IF MainHasAmount(d)
            THEN /\ SetGlobals(is_processing_trade_sequence,
                               MainWithOpenPrice(trade_sequence_state, d))
                 /\ SetTask(t, [tasks[t] EXCEPT !.pc = "bal_placed", !.i = 0,
                                   !.client = pocket_option_client])
            ELSE /\ SetTask(t, IF MainExhausted(tasks[t].i)
                                 THEN [tasks[t] EXCEPT !.pc = "bal_placed", !.i = 0,
                                         !.client = pocket_option_client]
                                 ELSE [tasks[t] EXCEPT !.i = @ + 1,
                                         !.client = pocket_option_client])
                 /\ UNCHANGED <<is_processing_trade_sequence, trade_sequence_state>>
  /\ UNCHANGED <<impl, env_ok, pocket_option_client, is_connected, client_objs,
                 handlers, orders>>

\* lines 432-454: one attempt of get_balance returns or raises; when the loop
\* ends, create_task for the new trade; this coroutine goes on to line 488
Main_Monitor_BalancePlaced(t) ==
  /\ impl = "main"
  /\ tasks[t].pc = "bal_placed"
  /\ \E r \in BalanceResults(tasks[t].client, {BaseBalance}) :
       /\ faults' = BalanceFaultsAfter(tasks[t].client, r)
       /\ IF BalanceOk(r) \/ MainExhausted(tasks[t].i)
            THEN LET st == IF BalanceOk(r)
                             THEN [trade_sequence_state EXCEPT
                                     !.current_balance = r.balance]
                             ELSE trade_sequence_state
                 IN /\ SetGlobals(is_processing_trade_sequence, st)
                    /\ tasks' = Append([tasks EXCEPT ![t] = MainTail(@)],
                                       MainNewTask(st, tasks[t].duration, tasks[t].seq))
            ELSE /\ SetTask(t, [tasks[t] EXCEPT !.i = @ + 1,
                                   !.client = pocket_option_client])
                 /\ UNCHANGED <<is_processing_trade_sequence, trade_sequence_state>>
  /\ UNCHANGED <<impl, env_ok, pocket_option_client, is_connected, client_objs,
                 handlers, orders>>

\* lines 488-513: asyncio.sleep(0.05) is over; the official-outcome log.  A
\* status of None raises at .upper() inside the try, which skips line 507
Main_Monitor_Tail(t) ==
  /\ impl = "main"
  /\ tasks[t].pc = "tail_sleep"
  /\ IF ClientUsable /\ trade_sequence_state.last_trade_status = "win"
       THEN /\ SetTask(t, [tasks[t] EXCEPT !.pc = "tail_balance",
                                      !.client = pocket_option_client])
            /\ UNCHANGED <<is_processing_trade_sequence, trade_sequence_state>>
       ELSE /\ SetTask(t, Ended(tasks[t], "done"))
            /\ SetGlobals(is_processing_trade_sequence,
                 IF ClientUsable /\ trade_sequence_state.last_trade_status # None
                   THEN Update(trade_sequence_state,
                               [last_trade_open_time |-> None,
                                last_trade_status |-> None])
                   ELSE Update(trade_sequence_state, [last_trade_status |-> None]))
  /\ UNCHANGED <<impl, env_ok, pocket_option_client, is_connected, client_objs,
                 handlers, orders, faults>>

\* lines 503-513: get_balance of the official-outcome log returns or raises
Main_Monitor_TailBalance(t) ==
  /\ impl = "main"
  /\ tasks[t].pc = "tail_balance"
  /\ \E r \in BalanceResults(tasks[t].client, {BaseBalance}) :
       /\ faults' = BalanceFaultsAfter(tasks[t].client, r)
       /\ SetTask(t, Ended(tasks[t], "done"))
       /\ SetGlobals(is_processing_trade_sequence,
            IF ~r.raised /\ r.obj /\ r.balance # Null
               /\ tasks[t].balance_before_this_trade # Null
               /\ trade_sequence_state.last_trade_status # None
              THEN Update(trade_sequence_state,
                          [last_trade_open_time |-> None,
                           last_trade_status |-> None])
              ELSE Update(trade_sequence_state, [last_trade_status |-> None]))
  /\ UNCHANGED <<impl, env_ok, pocket_option_client, is_connected, client_objs,
                 handlers, orders>>

----------------------------------------------------------------------------
(* The environment *)

\* the coroutines under way: requests being handled and monitors not yet ended
CoroutinesUnderWay ==
  Cardinality({h \in Handlers : handlers[h].pc \notin {"new", "done"}})
    + Cardinality({t \in Tasks : tasks[t].pc \notin {"done", "crashed"}})

\* the connection of the shared client drops
Env_Disconnect ==
  /\ ClientUsable
  /\ CoroutinesUnderWay <= MaxBusyAtDrop
  /\ faults < MaxFaults
  /\ is_connected' = is_connected \ {pocket_option_client}
  /\ faults' = faults + 1
  /\ UNCHANGED <<impl, env_ok, is_processing_trade_sequence, trade_sequence_state,
                 pocket_option_client, client_objs, handlers, tasks, orders>>

----------------------------------------------------------------------------
(* Specifications *)

\* trader.py after lifespan startup (lines 54-102): without SSID or UID no
\* client is built; a failed connect() leaves the handle None
InitClient ==
  \/ /\ env_ok = TRUE
     /\ pocket_option_client = 1 /\ is_connected = {1} /\ client_objs = 1
     /\ faults = 0
  \/ /\ env_ok = TRUE
     /\ pocket_option_client = 0 /\ is_connected = {} /\ client_objs = 1
     /\ faults = 0
  \/ /\ env_ok = FALSE
     /\ pocket_option_client = 0 /\ is_connected = {} /\ client_objs = 0
     /\ faults = 0

InitTrader ==
  /\ impl = "trader"
  /\ InitClient
  /\ is_processing_trade_sequence = FALSE
  /\ trade_sequence_state = DefaultState
  /\ handlers = [h \in Handlers |-> NewHandler]
  /\ tasks = <<>>
  /\ orders = <<>>

NextTrader ==
  \/ \E h \in Handlers : Trader_Webhook_Arrive(h)
  \/ \E h \in Handlers : Trader_Webhook_ConnectReturn(h)
  \/ \E h \in Handlers : Trader_Webhook_BodyReturn(h)
  \/ \E h \in Handlers : Trader_Webhook_BalanceBefore(h)
  \/ \E h \in Handlers : Trader_Webhook_EntryTimeReached(h)
  \/ \E h \in Handlers : Trader_Webhook_PlaceReturn(h)
  \/ \E h \in Handlers : Trader_Webhook_BalanceAfter(h)
  \/ \E t \in Tasks : Trader_Monitor_DurationElapsed(t)
  \/ \E t \in Tasks : Trader_Monitor_Details(t)
  \/ \E t \in Tasks : Trader_Monitor_BalanceOutcome(t)
  \/ \E t \in Tasks : Trader_Monitor_PlaceReturn(t)
  \/ \E t \in Tasks : Trader_Monitor_BalancePlaced(t)
  \/ Env_Disconnect

SpecTrader == InitTrader /\ [][NextTrader]_vars

\* a step of some coroutine of trader.py: every await returns or raises
TraderProgress ==
  \/ \E h \in Handlers : Trader_Webhook_Arrive(h)
  \/ \E h \in Handlers : Trader_Webhook_ConnectReturn(h)
  \/ \E h \in Handlers : Trader_Webhook_BodyReturn(h)
  \/ \E h \in Handlers : Trader_Webhook_BalanceBefore(h)
  \/ \E h \in Handlers : Trader_Webhook_EntryTimeReached(h)
  \/ \E h \in Handlers : Trader_Webhook_PlaceReturn(h)
  \/ \E h \in Handlers : Trader_Webhook_BalanceAfter(h)
  \/ \E t \in Tasks : Trader_Monitor_DurationElapsed(t)
  \/ \E t \in Tasks : Trader_Monitor_Details(t)
  \/ \E t \in Tasks : Trader_Monitor_BalanceOutcome(t)
  \/ \E t \in Tasks : Trader_Monitor_PlaceReturn(t)
  \/ \E t \in Tasks : Trader_Monitor_BalancePlaced(t)

\* the event loop runs every coroutine that can run
FairSpecTrader == SpecTrader /\ WF_vars(TraderProgress)

\* main.py, lines 73-99: no handle without SSID/UID; otherwise the handle is
\* an object, connected or (after ten failed attempts) not
InitClientMain ==
  \/ /\ env_ok = TRUE
     /\ pocket_option_client = 1 /\ is_connected = {1} /\ client_objs = 1
     /\ faults = 0
  \/ /\ env_ok = TRUE
     /\ pocket_option_client = 1 /\ is_connected = {} /\ client_objs = 1
     /\ faults = 1
  \/ /\ env_ok = FALSE
     /\ pocket_option_client = 0 /\ is_connected = {} /\ client_objs = 0
     /\ faults = 0

InitMain ==
  /\ impl = "main"
  /\ InitClientMain
  /\ is_processing_trade_sequence = FALSE
  /\ trade_sequence_state = MainDefaultState
  /\ handlers = [h \in Handlers |-> NewHandler]
  /\ tasks = <<>>
  /\ orders = <<>>

NextMain ==
  \/ \E h \in Handlers : Main_Webhook_Arrive(h)
  \/ \E h \in Handlers : Main_Webhook_ConnectReturn(h)
  \/ \E h \in Handlers : Main_Webhook_BodyReturn(h)
  \/ \E h \in Handlers : Main_Webhook_Latency(h)
  \/ \E h \in Handlers : Main_Webhook_EntryTimeReached(h)
  \/ \E h \in Handlers : Main_Webhook_BalanceBefore(h)
  \/ \E h \in Handlers : Main_Webhook_PlaceReturn(h)
  \/ \E h \in Handlers : Main_Webhook_Details(h)
  \/ \E h \in Handlers : Main_Webhook_BalanceAfter(h)
  \/ \E t \in Tasks : Main_Monitor_DurationElapsed(t)
  \/ \E t \in Tasks : Main_Monitor_BalanceOutcome(t)
  \/ \E t \in Tasks : Main_Monitor_PlaceReturn(t)
  \/ \E t \in Tasks : Main_Monitor_Details(t)
  \/ \E t \in Tasks : Main_Monitor_BalancePlaced(t)
  \/ \E t \in Tasks : Main_Monitor_Tail(t)
  \/ \E t \in Tasks : Main_Monitor_TailBalance(t)
  \/ Env_Disconnect

SpecMain == InitMain /\ [][NextMain]_vars

\* the snapshots, stakes and reports the classification is tried on
ClassifySnapshots == {BaseBalance + d : d \in 0..3}

ClassifyLevels == 0..MAX_MARTINGALE_LEVELS

ClassifyStake(level) ==
  IF level = 0 THEN INITIAL_TRADE_AMOUNT
  ELSE IF level = 1 THEN NextAmount(INITIAL_TRADE_AMOUNT)
  ELSE NextAmount(NextAmount(INITIAL_TRADE_AMOUNT))

ClassifyReports(tr) ==
  LET win == ExpectedWin(tr.balance_before_this_trade[1], tr.invested_amount,
                         tr.profit[1])
      loss == ExpectedLoss(tr.balance_before_this_trade[1], tr.invested_amount)
  IN {win + d : d \in (0 - 2)..2} \cup {loss + d : d \in (0 - 2)..2}

\* a monitor of trader.py at line 337, holding a valid balance report: the
\* sequence is at some level with some snapshot, the order's profit is known
InitClassify ==
  /\ impl = "classify"
  /\ env_ok = TRUE
  /\ pocket_option_client = 1 /\ is_connected = {1} /\ client_objs = 1
  /\ faults = 0
  /\ is_processing_trade_sequence = TRUE
  /\ handlers = [h \in Handlers |->
                   Finished([NewHandler EXCEPT !.acquired = (h = 1)],
                            IF h = 1 THEN Response("initial_trade_placed")
                                     ELSE Response("ignored"))]
  /\ orders = <<>>
  /\ \E b \in ClassifySnapshots, level \in ClassifyLevels :
       LET st == [NewSequenceState(DefaultState, "EURUSDT", "CALL") EXCEPT
                    !.current_level = level,
                    !.current_amount = ClassifyStake(level),
                    !.last_trade_id = Some(level + 1),
                    !.balance_before_current_trade = Some(b)]
       IN /\ trade_sequence_state = st
          /\ tasks = <<[NewTask(st, FIXED_TRADE_DURATION_SECONDS, 1) EXCEPT
                          !.pc = "bal_outcome",
                          !.profit = Some((st.current_amount * PayoutPct) \div 100)]>>

\* lines 337-363: the monitor classifies the reported balance
Classify(t) ==
  /\ impl = "classify"
  /\ tasks[t].pc = "bal_outcome"
  /\ \E c \in ClassifyReports(tasks[t]), below \in Roundings :
       LET r == [raised |-> FALSE, obj |-> TRUE, balance |-> Some(c)]
       IN /\ SetTask(t, [DecidedTask(tasks[t], r, below) EXCEPT !.pc = "decided"])
          /\ SetGlobals(is_processing_trade_sequence,
                        DecidedState(trade_sequence_state, tasks[t], r, below))
  /\ UNCHANGED <<impl, env_ok, pocket_option_client, is_connected, client_objs,
                 handlers, orders, faults>>

NextClassify == \E t \in Tasks : Classify(t)

SpecClassify == InitClassify /\ [][NextClassify]_vars

\* the dictionaries and gates reset_trade_sequence_state is called on: the
\* eight keys of trader.py lines 43-52 with the values the program writes
ResetStarts ==
  [active : BOOLEAN, asset : {None, "EURUSDT"}, direction : {None, "CALL"},
   current_level : 0..MAX_MARTINGALE_LEVELS,
   current_amount : {ClassifyStake(level) : level \in ClassifyLevels},
   last_trade_id : {Null, Some(1)},
   last_trade_status : {None, "pending", "win", "lose", "uncertain_loss"},
   balance_before_current_trade : {Null, Some(BaseBalance)}]

\* the caller's position: how many of its two calls it has made
ResetCalls == <<"reset_0", "reset_1", "reset_2">>

\* a caller about to call reset_trade_sequence_state() twice in a row, the
\* module's two globals in any state
InitReset ==
  /\ impl = "reset"
  /\ env_ok = TRUE
  /\ pocket_option_client = 1 /\ is_connected = {1} /\ client_objs = 1
  /\ faults = 0
  /\ is_processing_trade_sequence \in BOOLEAN
  /\ trade_sequence_state \in ResetStarts
  /\ handlers = [h \in Handlers |->
                   IF h = 1 THEN [NewHandler EXCEPT !.pc = ResetCalls[1]]
                            ELSE NewHandler]
  /\ tasks = <<>>
  /\ orders = <<>>

\* trader.py lines 420-432: one call of reset_trade_sequence_state(); it has
\* no await and nothing in it can raise (dict.update with literal keys and an
\* assignment to a global)
ResetCall(n) ==
  /\ impl = "reset"
  /\ handlers[1].pc = ResetCalls[n]
  /\ reset_trade_sequence_state(trade_sequence_state)
  /\ SetHandler(1, [handlers[1] EXCEPT !.pc = ResetCalls[n + 1]])
  /\ UNCHANGED <<impl, env_ok, pocket_option_client, is_connected, client_objs,
                 tasks, orders, faults>>

NextReset == \E n \in 1..2 : ResetCall(n)

SpecReset == InitReset /\ [][NextReset]_vars

\* the account balances a trade is placed from, under the ledger broker
LedgerStarts == {BaseBalance + 100 * d : d \in 0..19}

\* a broker that debits the stake from the balance when the order is placed
LedgerAfterPlacement(b, stake) == b - stake

\* ... and at expiry credits stake plus profit on a win, nothing on a loss
LedgerAfterExpiry(b, stake, profit, won) ==
  IF won THEN LedgerAfterPlacement(b, stake) + stake + profit
         ELSE LedgerAfterPlacement(b, stake)

\* the snapshot trader.py hands the monitor of a trade placed from balance b
\* when every RPC succeeds: at level 0 the balance read before place_order
\* (lines 207-214), at a re-entry the balance read after place_order
\* (lines 389-395)
LedgerSnapshot(level, b) ==
  IF level = 0 THEN b ELSE LedgerAfterPlacement(b, ClassifyStake(level))

\* the balance the trade of task record tr was placed from
LedgerStartOf(tr, level) ==
  IF level = 0 THEN tr.balance_before_this_trade[1]
  ELSE tr.balance_before_this_trade[1] + tr.invested_amount

\* a monitor of trader.py at line 337 with the profit of its order, the
\* trade placed from some balance at some level, the broker keeping a ledger
InitLedger ==
  /\ impl = "ledger"
  /\ env_ok = TRUE
  /\ pocket_option_client = 1 /\ is_connected = {1} /\ client_objs = 1
  /\ faults = 0
  /\ is_processing_trade_sequence = TRUE
  /\ handlers = [h \in Handlers |->
                   Finished([NewHandler EXCEPT !.acquired = (h = 1)],
                            IF h = 1 THEN Response("initial_trade_placed")
                                     ELSE Response("ignored"))]
  /\ orders = <<>>
  /\ \E b \in LedgerStarts, level \in ClassifyLevels :
       LET st == [NewSequenceState(DefaultState, "EURUSDT", "CALL") EXCEPT
                    !.current_level = level,
                    !.current_amount = ClassifyStake(level),
                    !.last_trade_id = Some(level + 1),
                    !.balance_before_current_trade =
                       Some(LedgerSnapshot(level, b))]
       IN /\ trade_sequence_state = st
          /\ tasks = <<[NewTask(st, FIXED_TRADE_DURATION_SECONDS, 1) EXCEPT
                          !.pc = "bal_outcome",
                          !.profit = Some((st.current_amount * PayoutPct) \div 100)]>>

\* lines 337-363: the trade is over, won or lost; the monitor classifies the
\* balance the ledger broker reports
LedgerClassify(t) ==
  /\ impl = "ledger"
  /\ tasks[t].pc = "bal_outcome"
  /\ \E won \in BOOLEAN, below \in Roundings :
       LET tr == tasks[t]
           c == LedgerAfterExpiry(LedgerStartOf(tr, trade_sequence_state.current_level),
                                  tr.invested_amount, tr.profit[1], won)
           r == [raised |-> FALSE, obj |-> TRUE, balance |-> Some(c)]
       IN /\ SetTask(t, [DecidedTask(tr, r, below) EXCEPT !.pc = "decided"])
          /\ SetGlobals(is_processing_trade_sequence,
                        DecidedState(trade_sequence_state, tr, r, below))
  /\ UNCHANGED <<impl, env_ok, pocket_option_client, is_connected, client_objs,
                 handlers, orders, faults>>

NextLedger == \E t \in Tasks : LedgerClassify(t)

SpecLedger == InitLedger /\ [][NextLedger]_vars

\* main.py, line 165: current_local_dt.hour <= 6
HOUR_THRESHOLD == 6

\* the instants the resolver may run at: a calendar day (counted from some
\* day 0), an hour and a minute of Africa/Windhoek time
LocalInstants == [day : 2..4, hour : 0..23, minute : {0, 59}]

\* the hours America/New_York is behind Africa/Windhoek: daylight and
\* standard time
RemoteOffsets == {6, 7}

\* main.py, lines 158-166: the date of signal_dt_in_signal_tz, built from the
\* local year, month and day, one day less when the local hour is <= 6
SignalDate(now) ==
  IF now.hour <= HOUR_THRESHOLD THEN now.day - 1 ELSE now.day

\* main.py, line 168: astimezone(LOCAL_TIMEZONE) of the signal's time on
\* that date, as <<day, hour, minute>> of local time
TargetLocal(date, entry, off) ==
  <<date + (entry[1] + off) \div 24, (entry[1] + off) % 24, entry[2]>>

\* a request of main.py at line 155, with a valid entry time, arriving at
\* some instant in summer or in winter
InitResolve ==
  /\ impl = "resolve"
  /\ env_ok = TRUE
  /\ pocket_option_client = 1 /\ is_connected = {1} /\ client_objs = 1
  /\ faults = 0
  /\ is_processing_trade_sequence = FALSE
  /\ trade_sequence_state = MainDefaultState
  /\ tasks = <<>>
  /\ orders = <<>>
  /\ \E now \in LocalInstants, off \in RemoteOffsets,
        entry \in {<<10, 59>>, <<0, 5>>, <<23, 30>>} :
       handlers = [h \in Handlers |->
         IF h = 1
           THEN [pc |-> "resolve", now |-> now, offset |-> off, entry |-> entry,
                 signal_date |-> Null, target_local_dt |-> Null]
           ELSE NewHandler]

\* lines 155-168: the entry time is resolved
ResolveEntryTime(h) ==
  /\ impl = "resolve"
  /\ handlers[h].pc = "resolve"
  /\ LET hr == handlers[h]
          date == SignalDate(hr.now)
     IN SetHandler(h, [hr EXCEPT
          !.pc = "resolved",
          !.signal_date = Some(date),
          !.target_local_dt = Some(TargetLocal(date, hr.entry, hr.offset))])
  /\ UNCHANGED <<impl, env_ok, is_processing_trade_sequence, trade_sequence_state,
                 pocket_option_client, is_connected, client_objs, tasks, orders,
                 faults>>

NextResolve == \E h \in Handlers : ResolveEntryTime(h)

SpecResolve == InitResolve /\ [][NextResolve]_vars

\* a request of trader.py at line 154, its body some notification text
InitParse ==
  /\ impl = "parse"
  /\ env_ok = TRUE
  /\ pocket_option_client = 1 /\ is_connected = {1} /\ client_objs = 1
  /\ faults = 0
  /\ is_processing_trade_sequence = FALSE
  /\ trade_sequence_state = DefaultState
  /\ tasks = <<>>
  /\ orders = <<>>
  /\ \E n \in Notifications :
       handlers = [h \in Handlers |->
         IF h = 1 THEN SetKey([NewHandler EXCEPT !.pc = "body"], "notification", n)
         ELSE NewHandler]

\* trader.py, lines 154-186: the body is parsed (parse_data.py, lines 32-101)
\* and the dictionary validated
ParseAndValidate(h) ==
  /\ impl = "parse"
  /\ handlers[h].pc = "body"
  /\ LET parsed == parse_macrodroid_trade_data(handlers[h].notification)
          hr == [handlers[h] EXCEPT !.parsed = Some(parsed)]
     IN IF MissingEssential(parsed) \/ ~ValidDirection(parsed.direction)
           \/ ~ValidEntryTime(parsed.entryTime)
          THEN SetHandler(h, [hr EXCEPT !.pc = "done", !.resp = Response("400")])
          ELSE SetHandler(h, [hr EXCEPT !.pc = "validated"])
  /\ UNCHANGED <<impl, env_ok, is_processing_trade_sequence, trade_sequence_state,
                 pocket_option_client, is_connected, client_objs, tasks, orders,
                 faults>>

NextParse == \E h \in Handlers : ParseAndValidate(h)

SpecParse == InitParse /\ [][NextParse]_vars

\* the positive balances the broker may report to get_valid_balance
PositiveBalances == {1, BaseBalance - 100, BaseBalance - 1, BaseBalance,
                     BaseBalance + 1, BaseBalance + 80, BaseBalance + 100,
                     BaseBalance + 180}

\* what one get_balance call may do: raise, or return any report
AnyBalanceResult == {BalanceRaise} \cup BalanceReports(PositiveBalances)

\* no report yet
NoReport == [raised |-> FALSE, obj |-> FALSE, balance |-> Null]

\* a monitor of trader.py at line 329, calling get_valid_balance; the record
\* carries the result of the last get_balance call
InitBalance ==
  /\ impl = "balance"
  /\ env_ok = TRUE
  /\ pocket_option_client = 1 /\ is_connected = {1} /\ client_objs = 1
  /\ faults = 0
  /\ is_processing_trade_sequence = TRUE
  /\ handlers = [h \in Handlers |->
                   Finished([NewHandler EXCEPT !.acquired = (h = 1)],
                            IF h = 1 THEN Response("initial_trade_placed")
                                     ELSE Response("ignored"))]
  /\ orders = <<>>
  /\ LET st == [NewSequenceState(DefaultState, "EURUSDT", "CALL") EXCEPT
                  !.last_trade_id = Some(1),
                  !.balance_before_current_trade = Some(BaseBalance)]
     IN /\ trade_sequence_state = st
        /\ tasks = <<SetKey([NewTask(st, FIXED_TRADE_DURATION_SECONDS, 1) EXCEPT
                               !.pc = "get_balance", !.client = 1],
                            "report", NoReport)>>

\* get_valid_balance, lines 119-131: attempt i of the loop; the function
\* returns the report, goes round again, or returns None after the last
\* attempt.  An exception of get_balance is caught at line 126
get_valid_balance(t) ==
  /\ impl = "balance"
  /\ tasks[t].pc = "get_balance"
  /\ \E r \in AnyBalanceResult :
       LET tr == [tasks[t] EXCEPT !.report = r]
       IN IF BalanceOk(r)
            THEN SetTask(t, [tr EXCEPT !.pc = "returned", !.current_balance = r.balance])
            ELSE IF BalanceExhausted(tr.i)
              THEN SetTask(t, [tr EXCEPT !.pc = "returned_none"])
              ELSE SetTask(t, [tr EXCEPT !.i = @ + 1])
  /\ UNCHANGED <<impl, env_ok, is_processing_trade_sequence, trade_sequence_state,
                 pocket_option_client, is_connected, client_objs, handlers,
                 orders, faults>>

NextBalance == \E t \in Tasks : get_valid_balance(t)

SpecBalance == InitBalance /\ [][NextBalance]_vars

\* either implementation serves /trade_signal
Init == InitTrader \/ InitMain

Next == NextTrader \/ NextMain

Spec == Init /\ [][Next]_vars

----------------------------------------------------------------------------
(* Sequences *)

\* the request's handler has set the gate and has not yet returned or raised
HandlerInFlight(h) == handlers[h].acquired /\ handlers[h].pc # "done"

\* the pcs of a monitor coroutine that has not yet made its decision, or is
\* placing and registering the re-entry
LiveTask(tr) == tr.pc \in {"sleep", "details", "bal_outcome", "placing", "bal_placed"}

\* the sequences in flight: begun by request h and not yet at a terminal outcome
InFlight ==
  {h \in Handlers :
     HandlerInFlight(h) \/ \E t \in Tasks : tasks[t].seq = h /\ LiveTask(tasks[t])}

\* the orders of the sequence begun by request h
OrdersOf(h) == {k \in 1..Len(orders) : orders[k].seq = h}

----------------------------------------------------------------------------
(* C1 *)

\* C1: under every interleaving of concurrently handled requests at most one
\* martingale sequence is in flight at any time
C1_AtMostOneInFlight == Cardinality(InFlight) <= 1

\* C1: two requests both passed the gate check, both set the gate and both
\* placed an initial order while the other's sequence was still in flight
C1_TwoInitialOrders ==
  \E g, h \in Handlers :
    /\ g # h
    /\ {g, h} \subseteq InFlight
    /\ OrdersOf(g) # {} /\ OrdersOf(h) # {}

----------------------------------------------------------------------------
(* C2 *)

\* the handler of this step reaches the gate check: main.py reads
\* get_connection_stats() of the handle before it (line 113)
ReachesGateCheck == impl = "trader" \/ pocket_option_client # 0

\* C2: a request whose handler finds the gate held is answered 'ignored' in
\* that very step, and the step changes neither the gate nor any field of
\* trade_sequence_state, starts no reconnect (the handle, the connections and
\* the client objects are unchanged), places no order and starts no task
C2_IgnoredLeavesStateUnchanged ==
  [][\A h \in Handlers :
       (/\ handlers[h].pc = "new"
        /\ handlers'[h].pc # "new"
        /\ is_processing_trade_sequence
        /\ ReachesGateCheck)
       => /\ handlers'[h].pc = "done"
          /\ handlers'[h].resp.status = "ignored"
          /\ ~handlers'[h].acquired
          /\ UNCHANGED <<is_processing_trade_sequence, trade_sequence_state,
                         pocket_option_client, is_connected, client_objs,
                         tasks, orders, faults>>]_vars

\* C2: a request was ignored while the gate was held
C2_Witness ==
  \E h \in Handlers :
    /\ handlers[h].resp.status = "ignored"
    /\ is_processing_trade_sequence
    /\ InFlight # {}

----------------------------------------------------------------------------
(* C3 *)

\* task t makes its decision in this step, and the decision is loss
DecidesLoss(t) ==
  /\ tasks[t].martingale_reentry_needed = "unset"
  /\ tasks'[t].martingale_reentry_needed = "True"

\* task t makes its decision in this step, and the decision is win
DecidesWin(t) ==
  /\ tasks[t].martingale_reentry_needed = "unset"
  /\ tasks'[t].martingale_reentry_needed = "False"

\* the step takes task t into the level test (trader.py line 373, main.py
\* line 400): the coroutine did not die on the way to it
ReachesLevelTest(t) ==
  tasks'[t].pc # "crashed" \/ trade_sequence_state'.current_level # trade_sequence_state.current_level

\* the sequence of task t has nothing left that could place an order
SequenceOver(t) ==
  /\ ~handlers'[tasks[t].seq].acquired \/ handlers'[tasks[t].seq].pc = "done"
  /\ \A u \in 1..Len(tasks') : tasks'[u].seq = tasks[t].seq => ~LiveTask(tasks'[u])

\* C3: current_level stays within 0..MAX_MARTINGALE_LEVELS, and a loss decided
\* at current_level = MAX_MARTINGALE_LEVELS places no order, starts no task
\* and releases the gate with the level back at 0
C3_LevelBoundedAndMaxLossEnds ==
  /\ [](trade_sequence_state.current_level \in 0..MAX_MARTINGALE_LEVELS)
  /\ [][\A t \in Tasks :
          (/\ DecidesLoss(t)
           /\ ReachesLevelTest(t)
           /\ trade_sequence_state.current_level = MAX_MARTINGALE_LEVELS)
          => /\ orders' = orders
             /\ Len(tasks') = Len(tasks)
             /\ tasks'[t].pc # "placing"
             /\ SequenceOver(t)
             /\ ~is_processing_trade_sequence'
             /\ ~trade_sequence_state'.active
             /\ trade_sequence_state'.current_level = 0]_vars

\* C3: a sequence lost its initial trade and both re-entries, and its third
\* monitor has released the gate
C3_Witness ==
  \E h \in Handlers :
    /\ Cardinality(OrdersOf(h)) = MAX_MARTINGALE_LEVELS + 1
    /\ \E t \in Tasks :
         /\ tasks[t].seq = h
         /\ tasks[t].martingale_reentry_needed = "True"
         /\ Cardinality({u \in Tasks : tasks[u].seq = h /\ u <= t})
              = MAX_MARTINGALE_LEVELS + 1
         /\ ~LiveTask(tasks[t])
    /\ \A g \in Handlers : g # h => ~handlers[g].acquired
    /\ ~is_processing_trade_sequence
    /\ trade_sequence_state.current_level = 0

----------------------------------------------------------------------------
(* C4 *)

\* the step in which the broker accepts the order task t asked for
ReentryPlaced(t) ==
  /\ tasks[t].pc = "placing"
  /\ tasks'[t].pc # "placing"
  /\ Len(orders') = Len(orders) + 1

\* C4: a loss decided at current_level < MAX_MARTINGALE_LEVELS raises the level
\* by one and doubles the amount before place_order is called, the order is
\* asked for and placed with the doubled amount, and the gate is held before
\* and after both steps
C4_LossBelowMaxReenters ==
  /\ [][\A t \in Tasks :
          (DecidesLoss(t) /\ trade_sequence_state.current_level < MAX_MARTINGALE_LEVELS)
          => /\ trade_sequence_state'.current_level
                  = trade_sequence_state.current_level + 1
             /\ trade_sequence_state'.current_amount
                  = trade_sequence_state.current_amount * MARTINGALE_MULTIPLIER
             /\ tasks'[t].pc = "placing"
             /\ tasks'[t].req.amount = trade_sequence_state'.current_amount
             /\ is_processing_trade_sequence
             /\ is_processing_trade_sequence']_vars
  /\ [][\A t \in Tasks :
          ReentryPlaced(t)
          => /\ orders'[Len(orders')].amount = tasks[t].req.amount
             /\ is_processing_trade_sequence
             /\ is_processing_trade_sequence']_vars

\* C4: a re-entry order of twice the initial amount is on the broker's books
C4_Witness ==
  \E k \in 1..Len(orders) :
    orders[k].amount = INITIAL_TRADE_AMOUNT * MARTINGALE_MULTIPLIER

----------------------------------------------------------------------------
(* C5 *)

\* the re-entry place_order of task t raises in this step: at its return, or
\* at the call because the handle is None
ReentryPlacementFails(t) ==
  \/ /\ tasks[t].pc = "placing"
     /\ tasks'[t].pc # "placing"
     /\ Len(orders') = Len(orders)
  \/ /\ DecidesLoss(t)
     /\ trade_sequence_state.current_level < MAX_MARTINGALE_LEVELS
     /\ tasks[t].direction # None
     /\ pocket_option_client = 0

\* the orders of the sequence begun by request h, after the step
OrdersOfNext(h) == {k \in 1..Len(orders') : orders'[k].seq = h}

\* the sequences in flight after the step
InFlightNext ==
  {h \in Handlers :
     \/ handlers'[h].acquired /\ handlers'[h].pc # "done"
     \/ \E t \in 1..Len(tasks') : tasks'[t].seq = h /\ LiveTask(tasks'[t])}

\* C5 (trader.py): on a win, on a loss at the last level and on a failed
\* re-entry placement the step releases the gate and leaves every field of
\* trade_sequence_state at its default, places no order and leaves the
\* sequence nothing that could place one; a sequence that is over stays over
C5_TerminalOutcomeResets ==
  /\ [][\A t \in Tasks :
          (\/ DecidesWin(t)
           \/ /\ DecidesLoss(t)
              /\ ReachesLevelTest(t)
              /\ trade_sequence_state.current_level = MAX_MARTINGALE_LEVELS
           \/ ReentryPlacementFails(t))
          => /\ ~is_processing_trade_sequence'
             /\ trade_sequence_state' = DefaultState
             /\ orders' = orders
             /\ Len(tasks') = Len(tasks)
             /\ tasks'[t].pc = "done"
             /\ SequenceOver(t)]_vars
  /\ [][\A h \in Handlers :
          (handlers[h].pc = "done" /\ h \notin InFlight)
          => (h \notin InFlightNext /\ OrdersOfNext(h) = OrdersOf(h))]_vars

\* C5: a monitor has decided win and the sequence is Idle
C5_Witness ==
  \E t \in Tasks :
    /\ tasks[t].martingale_reentry_needed = "False"
    /\ tasks[t].pc = "done"
    /\ ~is_processing_trade_sequence
    /\ trade_sequence_state = DefaultState
    /\ OrdersOf(tasks[t].seq) # {}

----------------------------------------------------------------------------
(* C6 *)

\* the step releases the gate
ReleasesGate == is_processing_trade_sequence /\ ~is_processing_trade_sequence'

\* C6 (trader.py): while a sequence is in flight current_level never
\* decreases except in the step that releases the gate, and that step takes
\* it to 0
C6_LevelMonotoneUntilRelease ==
  [][/\ (InFlight # {}
          /\ trade_sequence_state'.current_level < trade_sequence_state.current_level)
        => ReleasesGate
     /\ ReleasesGate => trade_sequence_state'.current_level = 0]_vars

\* C6: the level has been raised and the gate is still held
C6_Witness ==
  /\ trade_sequence_state.current_level > 0
  /\ is_processing_trade_sequence
  /\ InFlight # {}

----------------------------------------------------------------------------
(* C7 *)

\* C7 (trader.py): the gate is held as long as a sequence is in flight, and a
\* step releases it only when it ends the sequence it belongs to: there is no
\* release by a sequence that is already over or that goes on afterwards
C7_GateHeldUntilTerminal ==
  /\ [](InFlight # {} => is_processing_trade_sequence)
  /\ [][ReleasesGate => (InFlight # {} /\ InFlightNext = {})]_vars

\* C7: a sequence has placed its initial order and the gate is held
C7_Witness ==
  \E h \in InFlight : OrdersOf(h) # {} /\ is_processing_trade_sequence

----------------------------------------------------------------------------
(* C9 *)

\* outcome determination of task t fails in this step: the last of the
\* check_order_result attempts gave no profit, or get_valid_balance gave up
DeterminationFails(t) ==
  \/ /\ tasks[t].pc = "details"
     /\ tasks'[t].pc \notin {"details", "bal_outcome"}
  \/ /\ tasks[t].pc = "bal_outcome"
     /\ tasks'[t].assumed_loss

\* C9 (trader.py): when outcome determination fails the monitor decides loss
\* and goes through execute_martingale_or_reset in the same step: it asks for
\* the re-entry order or resets, and at the last level it resets
C9_FailedDeterminationIsLoss ==
  [][\A t \in Tasks :
       DeterminationFails(t)
       => /\ tasks'[t].martingale_reentry_needed = "True"
          /\ tasks'[t].pc \in {"placing", "done"}
          /\ (trade_sequence_state.current_level = MAX_MARTINGALE_LEVELS
              => (tasks'[t].pc = "done" /\ ~is_processing_trade_sequence'))]_vars

\* C9: a monitor assumed loss after failed determination and asked for the
\* re-entry order
C9_Witness ==
  \E t \in Tasks :
    /\ tasks[t].assumed_loss
    /\ tasks[t].pc = "placing"
    /\ tasks[t].req.amount = tasks[t].invested_amount * MARTINGALE_MULTIPLIER

----------------------------------------------------------------------------
(* C8 *)

\* the monitor coroutine t ended by an exception nothing handles: it neither
\* placed a re-entry nor reset the sequence
DiesUnhandled(t) == tasks[t].pc = "crashed"

\* no sequence is in progress and the dictionary says so
Idle ==
  /\ InFlight = {}
  /\ ~is_processing_trade_sequence
  /\ ~trade_sequence_state.active

\* C8 (trader.py): when the coroutines are scheduled fairly, every sequence
\* that acquired the gate eventually reaches Idle, and every path through the
\* monitor ends in a re-entry placement or a release of the gate, so no
\* monitor ends any other way
C8_EverySequenceEnds ==
  /\ <>[]Idle
  /\ [](\A t \in Tasks : ~DiesUnhandled(t))

\* C8: a monitor ended by an unhandled exception
C8_Witness == \E t \in Tasks : DiesUnhandled(t)

----------------------------------------------------------------------------
(* C10 *)

\* task record tr has classified the balance it was reported
Classified(tr) == tr.pc = "decided"

\* the distance of the reported balance from the balance expected on a win
WinDistance(tr) ==
  tr.current_balance[1]
    - (tr.balance_before_this_trade[1] + tr.profit[1] + tr.invested_amount)

\* C10 (trader.py): with snapshot B, stake s and profit p, in cents, the
\* monitor decides win exactly when the reported balance is less than one
\* cent from B + p + s; a balance at B - s and every other balance is a loss.
\* With B = BaseBalance, s = 100, p = 80: B - 100 is a loss, B + 180 a win
C10_BalanceClassification ==
  \A t \in Tasks :
    Classified(tasks[t]) =>
      /\ tasks[t].martingale_reentry_needed \in {"True", "False"}
      /\ tasks[t].martingale_reentry_needed = "False"
           <=> (0 - TOLERANCE < WinDistance(tasks[t])
                /\ WinDistance(tasks[t]) < TOLERANCE)
      /\ trade_sequence_state.last_trade_status = "win"
           <=> tasks[t].martingale_reentry_needed = "False"
      /\ tasks[t].current_balance[1]
           = tasks[t].balance_before_this_trade[1] - tasks[t].invested_amount
         => /\ tasks[t].martingale_reentry_needed = "True"
            /\ trade_sequence_state.last_trade_status = "lose"
      /\ (tasks[t].balance_before_this_trade[1] = BaseBalance
          /\ tasks[t].invested_amount = INITIAL_TRADE_AMOUNT)
         => /\ tasks[t].profit[1] = (INITIAL_TRADE_AMOUNT * PayoutPct) \div 100
            /\ tasks[t].current_balance[1] = BaseBalance - INITIAL_TRADE_AMOUNT
                 => tasks[t].martingale_reentry_needed = "True"
            /\ tasks[t].current_balance[1]
                 = BaseBalance + INITIAL_TRADE_AMOUNT + tasks[t].profit[1]
                 => tasks[t].martingale_reentry_needed = "False"

\* C10: with B = BaseBalance, s = 100 and p = 80 a balance one cent short of
\* B + p + s was classified as a win
C10_OneCentShortWins ==
  \E t \in Tasks :
    /\ Classified(tasks[t])
    /\ tasks[t].balance_before_this_trade[1] = BaseBalance
    /\ tasks[t].invested_amount = INITIAL_TRADE_AMOUNT
    /\ WinDistance(tasks[t]) = 0 - TOLERANCE
    /\ tasks[t].martingale_reentry_needed = "False"
    /\ trade_sequence_state.last_trade_status = "win"

----------------------------------------------------------------------------
(* C11 *)

\* the step takes request h through the late test: its signal passed the
\* validation and its arrival time was compared with the target time
ReachesLateTest(h) ==
  handlers[h].pc = "body" /\ handlers'[h].ttw # Null

\* how long after its target time request record hr arrived, in centiseconds
LateBy(hr) == 0 - hr.ttw[1]

\* the step answers request h with `status`
Answers(h, status) ==
  handlers[h].resp.status # status /\ handlers'[h].resp.status = status

\* C11: a request that reaches the late test is answered 'skipped' exactly
\* when it arrived more than 5 seconds after its target time; the step that
\* answers 'skipped' has not acquired the gate, changes no field of
\* trade_sequence_state, places no order and starts no task; a request that
\* arrived exactly 5 seconds late is not skipped and never waits for its
\* entry time
C11_SkippedIffLate ==
  [][\A h \in Handlers :
       /\ ReachesLateTest(h) =>
            (handlers'[h].resp.status = "skipped"
               <=> LateBy(handlers'[h]) > LATE_GRACE)
       /\ Answers(h, "skipped") =>
            /\ ReachesLateTest(h)
            /\ ~handlers'[h].acquired
            /\ is_processing_trade_sequence' = is_processing_trade_sequence
            /\ trade_sequence_state' = trade_sequence_state
            /\ orders' = orders
            /\ tasks' = tasks
       /\ (handlers[h].ttw # Null /\ LateBy(handlers[h]) = LATE_GRACE) =>
            /\ handlers[h].resp.status # "skipped"
            /\ handlers'[h].resp.status # "skipped"
            /\ handlers'[h].pc # "wait"
            /\ ~handlers'[h].must_wait]_vars

\* C11: one request was skipped for arriving late, and another one, which
\* arrived exactly 5 seconds late, is about to go on from the late test
C11_Witness ==
  \E h, g \in Handlers :
    /\ handlers[h].resp.status = "skipped"
    /\ LateBy(handlers[h]) > LATE_GRACE
    /\ handlers[g].pc \in {"bal_before", "latency"}
    /\ handlers[g].ttw # Null
    /\ LateBy(handlers[g]) = LATE_GRACE

----------------------------------------------------------------------------
(* C12 *)

\* the step takes request h through the validation of its parsed signal
Validates(h) == handlers[h].pc = "body" /\ handlers'[h].parsed # Null

\* the parsed signal p lacks a field, names no order direction, or has an
\* entry time that is no time of day
BadInput(p) ==
  \/ p.asset_name_for_po = None
  \/ p.direction = None
  \/ p.entryTime = Null
  \/ p.direction \notin {"CALL", "PUT", "call", "put"}
  \/ p.entryTime[1] > 23
  \/ p.entryTime[2] > 59

\* C12 (trader.py): a request whose parsed signal lacks asset, direction or
\* entry time, or has an invalid direction or an unparsable entry time, is
\* answered 400 in the step that validates it; that step does not acquire the
\* gate, changes neither the gate nor trade_sequence_state, places no order
\* and starts no task, and 400 is answered for no other reason
C12_InputErrorsLeaveGateFree ==
  [][\A h \in Handlers :
       /\ (Validates(h) /\ BadInput(handlers'[h].parsed[1])) =>
            handlers'[h].resp.status = "400"
       /\ Answers(h, "400") =>
            /\ Validates(h) /\ BadInput(handlers'[h].parsed[1])
            /\ ~handlers'[h].acquired
            /\ is_processing_trade_sequence' = is_processing_trade_sequence
            /\ trade_sequence_state' = trade_sequence_state
            /\ orders' = orders
            /\ tasks' = tasks]_vars

\* C12: one request was rejected for its direction token and another for its
\* entry time, and nothing was acquired or placed
C12_Witness ==
  \E h, g \in Handlers :
    /\ handlers[h].resp.status = "400"
    /\ handlers[h].parsed[1].direction = "BUY"
    /\ handlers[g].resp.status = "400"
    /\ handlers[g].parsed[1].entryTime = <<25, 99>>
    /\ ~is_processing_trade_sequence
    /\ trade_sequence_state = DefaultState
    /\ orders = <<>>

----------------------------------------------------------------------------
(* C13 *)

\* request h arrives in this step, finds the gate free and the broker handle
\* absent or disconnected
ArrivesDisconnected(h) ==
  /\ handlers[h].pc = "new" /\ handlers'[h].pc # "new"
  /\ ~is_processing_trade_sequence
  /\ ~ClientUsable

\* the step answers request h with 503 because its reconnection failed
ReconnectFails(h) ==
  handlers[h].pc \in {"new", "connect"} /\ Answers(h, "503")

----------------------------------------------------------------------------
(* C14 *)

\* the initial place_order of request h raises in this step: at its return
\* (no order is booked), or at the call because the handle is None
InitialPlacementFails(h) ==
  \/ /\ handlers[h].pc = "placing" /\ handlers'[h].pc # "placing"
     /\ orders' = orders
  \/ /\ handlers[h].pc \in {"bal_before", "wait"}
     /\ Answers(h, "500")

\* C14 (trader.py): when the initial place_order raises after the gate was
\* acquired, the same step answers 500, releases the gate, resets
\* trade_sequence_state to its defaults and starts no monitor task, so that
\* the next request finds the gate free
C14_FailedInitialPlacementResets ==
  [][\A h \in Handlers :
       InitialPlacementFails(h) =>
         /\ handlers[h].acquired
         /\ handlers'[h].pc = "done"
         /\ handlers'[h].resp.status = "500"
         /\ ~is_processing_trade_sequence'
         /\ ~GateHeld(is_processing_trade_sequence')
         /\ trade_sequence_state' = DefaultState
         /\ tasks' = tasks
         /\ orders' = orders]_vars

\* C14: the first request's place_order raised and was answered 500 with
\* nothing booked or started; the second request then acquired the gate
C14_Witness ==
  /\ handlers[1].resp.status = "500"
  /\ handlers[1].acquired
  /\ handlers[2].pc = "bal_before"
  /\ handlers[2].acquired
  /\ is_processing_trade_sequence
  /\ orders = <<>>
  /\ tasks = <<>>

----------------------------------------------------------------------------
(* C20 *)

\* the notifications with an asset, an expiration, a direction keyword and an
\* entry time that is a time of day
WellFormedNotifications ==
  {n \in Notifications :
     /\ n.asset # None
     /\ convert_duration_text_to_seconds(n.expiration) # 0
     /\ n.keyword # None
     /\ n.entry # Null /\ n.entry[1] <= 23 /\ n.entry[2] <= 59}

\* what the parser returns for them
WellFormedParsed ==
  {parse_macrodroid_trade_data(n) : n \in WellFormedNotifications}

\* C20: the direction the parser emits for a well-formed BUY/UP or SELL/DOWN
\* notification passes the webhook's direction validation: the request that
\* carries it is not answered 400, and when it is on time it goes on towards
\* the placement
C20_ParsedDirectionAccepted ==
  [][\A h \in Handlers :
       (Validates(h) /\ handlers'[h].parsed[1] \in WellFormedParsed) =>
         /\ handlers'[h].resp.status # "400"
         /\ handlers'[h].ttw # Null
         /\ ~(LateBy(handlers'[h]) > LATE_GRACE) => handlers'[h].pc # "done"]_vars

\* C20: a request with the parser's dictionary for a well-formed notification
\* was answered 400
C20_WellFormedRejected ==
  \E h \in Handlers :
    /\ handlers[h].resp.status = "400"
    /\ handlers[h].parsed # Null
    /\ handlers[h].parsed[1] \in WellFormedParsed
    /\ handlers[h].parsed[1].direction \in {"BUY", "SELL"}

----------------------------------------------------------------------------
(* C15 *)

\* no request but the first has arrived yet
OnlyFirst == \A g \in Handlers \ {1} : handlers[g].pc = "new"

\* the first request's sequence is over and no request after the second has
\* arrived yet
OnlySecond ==
  /\ handlers[1].pc = "done"
  /\ \A t \in Tasks : tasks[t].seq = 1 => ~LiveTask(tasks[t])
  /\ \A g \in Handlers \ {1, 2} : handlers[g].pc = "new"

\* the step books an order for the sequence of request h
BooksOrderOf(h) ==
  /\ Len(orders') = Len(orders) + 1
  /\ orders'[Len(orders')].seq = h

\* the first request, alone and on time with the gate free, carries what the
\* parser returns for a well-formed notification, and is not rejected: it
\* acquires the gate
C15_AcceptsWellFormed ==
  (/\ OnlyFirst /\ Validates(1)
   /\ handlers'[1].parsed[1] \in WellFormedParsed
   /\ ~is_processing_trade_sequence) =>
    /\ handlers'[1].resp.status # "400"
    /\ handlers'[1].ttw # Null
    /\ ~(LateBy(handlers'[1]) > LATE_GRACE) =>
         handlers'[1].acquired /\ is_processing_trade_sequence'

\* While only the first request has arrived: when it is accepted, an order of
\* INITIAL_TRADE_AMOUNT was placed at level 0; the order after a loss has
\* twice that stake, at level 1, with the gate held; a win at level 1 resets
\* the state and releases the gate.  A second request that arrives when the
\* state is Idle again is not ignored; it acquires the gate at level 0 with
\* INITIAL_TRADE_AMOUNT, and the order of the sequence it began is placed with
\* that stake at level 0
C15_Chain ==
  /\ (OnlyFirst /\ Answers(1, "initial_trade_placed")) =>
       /\ Len(orders) = 1
       /\ orders[1].seq = 1
       /\ orders[1].amount = INITIAL_TRADE_AMOUNT
       /\ orders[1].asset = GoodSignal(1).asset_name_for_po
       /\ handlers'[1].resp.trade_id = Some(orders[1].order_id)
       /\ handlers'[1].resp.amount = INITIAL_TRADE_AMOUNT
       /\ handlers'[1].resp.martingale_level = 0
       /\ is_processing_trade_sequence'
  /\ (OnlyFirst /\ Len(orders) = 1 /\ BooksOrderOf(1)) =>
       /\ \E t \in Tasks :
            tasks[t].pc = "placing" /\ tasks[t].martingale_reentry_needed = "True"
       /\ orders'[2].amount = MARTINGALE_MULTIPLIER * INITIAL_TRADE_AMOUNT
       /\ orders'[2].asset = orders[1].asset
       /\ orders'[2].direction = orders[1].direction
       /\ trade_sequence_state'.current_level = 1
       /\ trade_sequence_state'.current_amount
            = MARTINGALE_MULTIPLIER * INITIAL_TRADE_AMOUNT
       /\ is_processing_trade_sequence'
  /\ \A t \in Tasks :
       (OnlyFirst /\ DecidesLoss(t) /\ trade_sequence_state.current_level = 0) =>
         /\ trade_sequence_state'.current_level = 1 \/ orders' = orders
         /\ tasks'[t].pc = "placing" =>
              /\ tasks'[t].req.amount
                   = MARTINGALE_MULTIPLIER * INITIAL_TRADE_AMOUNT
              /\ trade_sequence_state'.current_level = 1
              /\ is_processing_trade_sequence'
  /\ \A t \in Tasks :
       (OnlyFirst /\ DecidesWin(t) /\ trade_sequence_state.current_level = 1) =>
         /\ ~is_processing_trade_sequence'
         /\ trade_sequence_state' = DefaultState
         /\ InFlightNext = {}
  /\ (OnlySecond /\ Idle /\ handlers[2].pc = "new" /\ handlers'[2].pc # "new") =>
       handlers'[2].resp.status # "ignored"
  /\ (OnlySecond /\ Idle /\ handlers[2].pc = "body" /\ handlers'[2].acquired) =>
       /\ is_processing_trade_sequence'
       /\ trade_sequence_state'.active
       /\ trade_sequence_state'.asset = GoodSignal(2).asset_name_for_po
       /\ trade_sequence_state'.current_level = 0
       /\ trade_sequence_state'.current_amount = INITIAL_TRADE_AMOUNT
  /\ (/\ OnlySecond /\ BooksOrderOf(2) /\ OrdersOf(2) = {}
      /\ is_processing_trade_sequence
      /\ trade_sequence_state.asset = GoodSignal(2).asset_name_for_po) =>
       /\ orders'[Len(orders')].amount = INITIAL_TRADE_AMOUNT
       /\ orders'[Len(orders')].asset = GoodSignal(2).asset_name_for_po
       /\ trade_sequence_state'.current_level = 0
       /\ is_processing_trade_sequence'

\* C15 (trader.py), end to end: a well-formed signal that arrives with the
\* gate free is accepted and an order of 1 is placed at level 0; after a loss
\* the next order is 2 at level 1; after a win the state is Idle with the gate
\* released, and a following signal is accepted and starts at level 0 with 1
C15_EndToEnd == [][C15_AcceptsWellFormed /\ C15_Chain]_vars

\* the chain by itself, for a signal in the broker's names
C15_ChainFromAcceptedSignal == [][C15_Chain]_vars

\* C15: the first request carried the parser's dictionary for a well-formed
\* notification, found the gate free and was answered 400: no order, no gate
C15_FirstSignalRejected ==
  /\ handlers[1].resp.status = "400"
  /\ handlers[1].parsed # Null
  /\ handlers[1].parsed[1] \in WellFormedParsed
  /\ OnlyFirst
  /\ ~is_processing_trade_sequence
  /\ orders = <<>>

\* with signals in the broker's names the first sequence placed 1, lost,
\* placed 2 and won; the second request was then accepted with an order of 1
\* at level 0
C15_ChainReached ==
  /\ Len(orders) = 3
  /\ orders[1].seq = 1 /\ orders[1].amount = INITIAL_TRADE_AMOUNT
  /\ orders[2].seq = 1
  /\ orders[2].amount = MARTINGALE_MULTIPLIER * INITIAL_TRADE_AMOUNT
  /\ orders[3].seq = 2 /\ orders[3].amount = INITIAL_TRADE_AMOUNT
  /\ orders[3].asset = GoodSignal(2).asset_name_for_po
  /\ Len(tasks) = 3
  /\ tasks[2].martingale_reentry_needed = "False"
  /\ handlers[2].resp.status = "initial_trade_placed"
  /\ handlers[2].resp.martingale_level = 0
  /\ trade_sequence_state.current_level = 0
  /\ is_processing_trade_sequence

----------------------------------------------------------------------------
(* C16: releasing the gate twice *)

\* the step is the second of two calls of reset_trade_sequence_state in a row
SecondReset == handlers[1].pc = ResetCalls[2] /\ handlers'[1].pc = ResetCalls[3]

\* C16 (trader.py): the second of two calls of reset_trade_sequence_state()
\* in a row changes neither the gate nor trade_sequence_state, whatever the
\* two were before the first call, and the call always completes (the caller
\* goes on to its next position: nothing is raised)
C16_ResetIdempotent ==
  [][/\ SecondReset =>
          /\ is_processing_trade_sequence' = is_processing_trade_sequence
          /\ trade_sequence_state' = trade_sequence_state
          /\ ~is_processing_trade_sequence'
          /\ trade_sequence_state' = DefaultState
     /\ handlers[1].pc \in {ResetCalls[1], ResetCalls[2]} =>
          handlers'[1].pc \in {ResetCalls[2], ResetCalls[3]}]_vars

\* C16 witness: both calls were made and the gate is free with the
\* dictionary in its idle form
C16_Witness ==
  /\ impl = "reset"
  /\ handlers[1].pc = ResetCalls[3]
  /\ ~is_processing_trade_sequence
  /\ trade_sequence_state = DefaultState

----------------------------------------------------------------------------
(* C17: reconnects on the shared handle *)

\* the requests whose connect() call has been made and has not returned
ConnectInFlight == {h \in Handlers : handlers[h].pc = "connect"}

\* the step is request h's connect() raising: lines 287-290
FailedReconnect(h) ==
  /\ handlers[h].pc = "connect"
  /\ handlers'[h].pc = "done"
  /\ handlers'[h].resp.status = "503"

\* at most one connect() call is in flight
C17_OneConnectInFlight == Cardinality(ConnectInFlight) <= 1

\* a failing reconnect does not set the handle to None once another
\* reconnect has connected it
C17_FailureKeepsConnectedHandle ==
  \A h \in Handlers :
    FailedReconnect(h) /\ ClientUsable => pocket_option_client' # 0

\* C17 (trader.py): reconnects on the shared handle are serialized: at most
\* one connect() call is in flight at any time, and a failing reconnect never
\* sets the shared handle to None after another concurrent reconnect has
\* connected it
C17_ReconnectsSerialized ==
  [][C17_OneConnectInFlight' /\ C17_FailureKeepsConnectedHandle]_vars

\* C17: two requests that arrived while the broker was disconnected are both
\* inside connect() on the same client object
C17_TwoConnectsInFlight ==
  /\ impl = "trader"
  /\ ConnectInFlight = {1, 2}
  /\ handlers[1].client = handlers[2].client

\* C17: one request's reconnect connected the client and went on, the
\* other's failed and left the handle None
C17_ConnectedHandleLost ==
  /\ impl = "trader"
  /\ pocket_option_client = 0
  /\ is_connected # {}
  /\ \E h \in Handlers : handlers[h].pc = "done" /\ handlers[h].resp.status = "503"
  /\ \E h \in Handlers : handlers[h].pc = "body"

----------------------------------------------------------------------------
(* C18: writes to trade_sequence_state and the gate *)

\* the step writes a field of trade_sequence_state
WritesState == trade_sequence_state' # trade_sequence_state

\* the sequences whose coroutines (webhook handler or monitor task) take the
\* step: a sequence is numbered by the request that began it
WriterSequences ==
  {h \in Handlers : handlers'[h] # handlers[h]} \cup
  {tasks[t].seq : t \in {u \in Tasks : tasks'[u] # tasks[u]}}

\* the gate is held when the step begins, or the step itself acquires it
GateHeldDuring == is_processing_trade_sequence \/ is_processing_trade_sequence'

\* C18 (trader.py and main.py): every write to a field of
\* trade_sequence_state is made while the gate is held by the sequence that
\* writes: the writing coroutine belongs to a sequence that has acquired the
\* gate, and the gate is held when the write is made (not before the
\* acquisition, not after the release)
C18_WritesUnderGate ==
  [][WritesState =>
       /\ GateHeldDuring
       /\ \A s \in WriterSequences : handlers'[s].acquired]_vars

\* C18: a single sequence of main.py has released the gate and its monitor
\* is at the tail of handle_trade_outcome_and_martingale (lines 485-513),
\* about to write last_trade_status
C18_TailAfterRelease ==
  /\ impl = "main"
  /\ ~is_processing_trade_sequence
  /\ Len(tasks) = 1
  /\ \A h \in Handlers : h # 1 => ~handlers[h].acquired
  /\ tasks[1].pc \in {"tail_sleep", "tail_balance"}
  /\ trade_sequence_state.last_trade_status # None

----------------------------------------------------------------------------
(* C19: the accepted response *)

\* the step is request h's webhook returning the accepted response
ReturnsAccepted(h) ==
  /\ handlers[h].pc # "done"
  /\ handlers'[h].pc = "done"
  /\ handlers'[h].resp.status = "initial_trade_placed"

\* the monitor tasks spawned for the order with this id, after the step
MonitorsOfNext(order_id) ==
  {t \in 1..Len(tasks') : tasks'[t].trade_id = Some(order_id)}

\* what the claim says of the step in which request h's webhook returns
AcceptedAsClaimed(h) ==
  /\ Cardinality(OrdersOfNext(h)) = 1
  /\ is_processing_trade_sequence'
  /\ \A k \in OrdersOfNext(h) :
       /\ Cardinality(MonitorsOfNext(orders'[k].order_id)) = 1
       /\ Len(tasks') = Len(tasks) + 1
       /\ handlers'[h].resp.trade_id = Some(orders'[k].order_id)
       /\ handlers'[h].resp.martingale_level = 0
       /\ handlers'[h].resp.amount = INITIAL_TRADE_AMOUNT

\* C19 (trader.py): whenever the webhook returns the accepted response
\* (status 'initial_trade_placed'), exactly one order has been placed for the
\* new sequence, the gate is held, exactly one monitor task for that order
\* has been spawned, and the response reports that order's id with martingale
\* level 0 and amount INITIAL_TRADE_AMOUNT
C19_AcceptedResponse ==
  [][\A h \in Handlers : ReturnsAccepted(h) => AcceptedAsClaimed(h)]_vars

\* no request but h has acquired the gate: every other one has not arrived
\* yet or was answered without beginning a sequence
Alone(h) ==
  \A g \in Handlers \ {h} :
    \/ handlers[g].pc = "new"
    \/ handlers[g].pc = "done" /\ ~handlers[g].acquired

\* C19, for a request handled alone: the accepted response is as claimed
C19_AcceptedResponseAlone ==
  [][\A h \in Handlers :
       ReturnsAccepted(h) /\ Alone(h) => AcceptedAsClaimed(h)]_vars

\* C19: a request was answered 'initial_trade_placed' and the gate is free
\* although its monitor has not decided anything yet
C19_AcceptedWithGateFree ==
  /\ impl = "trader"
  /\ ~is_processing_trade_sequence
  /\ \E h \in Handlers :
       /\ handlers[h].resp.status = "initial_trade_placed"
       /\ \E t \in Tasks : tasks[t].seq = h /\ tasks[t].pc = "sleep"
       /\ \A t \in Tasks : tasks[t].seq = h => tasks[t].pc = "sleep"

\* C19: a request handled alone was answered 'initial_trade_placed' with
\* its order's id, level 0 and INITIAL_TRADE_AMOUNT, the gate held
C19_AcceptedAloneReached ==
  /\ impl = "trader"
  /\ is_processing_trade_sequence
  /\ handlers[1].resp = [status |-> "initial_trade_placed", trade_id |-> Some(1),
                         amount |-> INITIAL_TRADE_AMOUNT, martingale_level |-> 0]
  /\ handlers[2].pc = "new"
  /\ Len(orders) = 1 /\ Len(tasks) = 1

----------------------------------------------------------------------------
(* C21: the snapshot handed to a monitor *)

\* the step spawns a monitor task (asyncio.create_task, lines 239 and 398)
SpawnsMonitor == Len(tasks') = Len(tasks) + 1

\* the task the step spawns
Spawned == tasks'[Len(tasks')]

\* the step that spawns comes after place_order returned (lines 232-239 and
\* 387-398): a snapshot read before the place_order call is the one the
\* dictionary holds when the spawning step begins
HandsPreTradeSnapshot ==
  Spawned.balance_before_this_trade = trade_sequence_state.balance_before_current_trade

\* C21 (trader.py): for every trade of a sequence, at every martingale level,
\* the balance snapshot handed to that trade's monitor was read from the
\* broker before that trade's place_order call: the spawning step, which
\* follows the placement, hands over the snapshot it found and not a balance
\* it read itself
C21_SnapshotIsPreTrade ==
  [][SpawnsMonitor => HandsPreTradeSnapshot]_vars

\* C21, for the initial trade only (lines 207-251): the webhook hands its
\* monitor the snapshot it found in the dictionary after the placement
C21_InitialSnapshotIsPreTrade ==
  [][SpawnsMonitor /\ (\E h \in Handlers : handlers'[h] # handlers[h]) =>
       HandsPreTradeSnapshot]_vars

\* C21: a re-entry was placed when the dictionary held the balance read
\* after the lost trade, and the re-entry's monitor was handed another
\* balance, read after the placement (lines 389-391)
C21_ReentrySnapshotReadAfterPlacement ==
  /\ impl = "trader"
  /\ Len(tasks) = 2 /\ Len(orders) = 2
  /\ handlers[2].pc = "new"
  /\ tasks[2].pc = "sleep"
  /\ tasks[2].trade_id = Some(2)
  /\ tasks[2].invested_amount = NextAmount(INITIAL_TRADE_AMOUNT)
  /\ tasks[2].balance_before_this_trade = Some(BaseBalance)
  /\ trade_sequence_state.last_trade_status = "lose"

----------------------------------------------------------------------------
(* C22: the decision against a broker that keeps a ledger *)

\* the monitor has decided
LedgerDecided == impl = "ledger" /\ tasks[1].pc = "decided"

\* the trade truly won: the balance is the one the ledger shows after a win
TrulyWon ==
  tasks[1].current_balance[1] =
    LedgerAfterExpiry(LedgerStartOf(tasks[1], trade_sequence_state.current_level),
                      tasks[1].invested_amount, tasks[1].profit[1], TRUE)

\* the monitor's decision is the truth: re-entry exactly on a loss
DecidedTruly == (tasks[1].martingale_reentry_needed = "False") <=> TrulyWon

\* C22 (trader.py): with a broker that debits the stake at placement and at
\* expiry credits stake plus profit on a win and nothing on a loss, all RPCs
\* succeeding, the monitor decides 'no re-entry' for every truly winning trade
\* and 'loss' for every truly losing trade, at every level including level 0
C22_DecisionIsTruth == LedgerDecided => DecidedTruly

\* C22, at the re-entry levels only
C22_ReentryDecisionIsTruth ==
  LedgerDecided /\ trade_sequence_state.current_level > 0 => DecidedTruly

\* C22: a level-0 trade that truly won is decided a loss
C22_WinDecidedLoss ==
  /\ LedgerDecided
  /\ trade_sequence_state.current_level = 0
  /\ TrulyWon
  /\ tasks[1].martingale_reentry_needed = "True"
  /\ trade_sequence_state.last_trade_status = "uncertain_loss"

\* C22: a level-1 trade that truly won is decided a win
C22_ReentryWinDecidedWin ==
  /\ LedgerDecided
  /\ trade_sequence_state.current_level = 1
  /\ TrulyWon
  /\ tasks[1].martingale_reentry_needed = "False"

----------------------------------------------------------------------------
(* C23: the stake and the level *)

\* INITIAL_TRADE_AMOUNT * MARTINGALE_MULTIPLIER^level
AmountForLevel(level) == INITIAL_TRADE_AMOUNT * MARTINGALE_MULTIPLIER ^ level

\* the dictionary st pairs the stake with the level
AmountMatchesLevel(st) == st.current_amount = AmountForLevel(st.current_level)

\* the step is a place_order call of coroutine record before/after
CallsPlaceOrder(before, after) == before.pc # "placing" /\ after.pc = "placing"

\* the step books an order
BooksOrder == Len(orders') = Len(orders) + 1

\* the place_order requests outstanding before the step
PlacingRequests ==
  {handlers[h].req : h \in {g \in Handlers : handlers[g].pc = "placing"}} \cup
  {tasks[t].req : t \in {u \in Tasks : tasks[u].pc = "placing"}}

\* C23 (trader.py): in every state another task can observe (every state
\* between two awaits), current_amount is INITIAL_TRADE_AMOUNT *
\* MARTINGALE_MULTIPLIER^current_level; every place_order call asks for
\* exactly that amount at the level the dictionary has at the call, and the
\* order is booked with the amount asked for
C23_AmountFollowsLevel ==
  /\ AmountMatchesLevel(trade_sequence_state)
  /\ [][/\ AmountMatchesLevel(trade_sequence_state')
        /\ \A h \in Handlers :
             CallsPlaceOrder(handlers[h], handlers'[h]) =>
               handlers'[h].req.amount =
                 AmountForLevel(trade_sequence_state'.current_level)
        /\ \A t \in Tasks :
             CallsPlaceOrder(tasks[t], tasks'[t]) =>
               tasks'[t].req.amount =
                 AmountForLevel(trade_sequence_state'.current_level)
        /\ BooksOrder =>
             /\ orders'[Len(orders')].amount \in {r.amount : r \in PlacingRequests}
             /\ orders'[Len(orders')].amount \in
                  {AmountForLevel(level) : level \in 0..MAX_MARTINGALE_LEVELS}]_vars

\* C23 witness: one sequence has placed its three orders, with 1, 2 and 4
\* times INITIAL_TRADE_AMOUNT, and the dictionary is at level 2
C23_Witness ==
  /\ impl = "trader"
  /\ Len(orders) = 3
  /\ \A k \in 1..3 : orders[k].seq = 1 /\ orders[k].amount = AmountForLevel(k - 1)
  /\ trade_sequence_state.current_level = MAX_MARTINGALE_LEVELS
  /\ trade_sequence_state.current_amount = 4 * INITIAL_TRADE_AMOUNT

----------------------------------------------------------------------------
(* C24: the orders and the stake of one sequence *)

\* the coroutines of sequence s inside a place_order call: the webhook
\* handler that began it, and its monitor tasks
PlacingHandlers(s) == {h \in {s} : handlers[h].pc = "placing"}

PlacingTasks(s) == {t \in Tasks : tasks[t].seq = s /\ tasks[t].pc = "placing"}

\* the stake of the first k orders the broker accepted that belong to s
RECURSIVE StakeBooked(_, _)
StakeBooked(s, k) ==
  IF k = 0 THEN 0
  ELSE StakeBooked(s, k - 1) + (IF orders[k].seq = s THEN orders[k].amount ELSE 0)

\* the stake of the place_order calls of task 1..k of s that have not returned
RECURSIVE StakeAsked(_, _)
StakeAsked(s, k) ==
  IF k = 0 THEN 0
  ELSE StakeAsked(s, k - 1)
       + (IF tasks[k].seq = s /\ tasks[k].pc = "placing" THEN tasks[k].req.amount ELSE 0)

\* the orders sequence s has placed, an order counting from its place_order
\* call on
OrdersPlaced(s) ==
  Cardinality(OrdersOf(s)) + Cardinality(PlacingHandlers(s))
    + Cardinality(PlacingTasks(s))

\* the stake sequence s has committed
StakeCommitted(s) ==
  StakeBooked(s, Len(orders)) + StakeAsked(s, Len(tasks))
    + (IF handlers[s].pc = "placing" THEN handlers[s].req.amount ELSE 0)

\* 1 + 2 + 4 times INITIAL_TRADE_AMOUNT
MaxSequenceStake ==
  AmountForLevel(0) + AmountForLevel(1) + AmountForLevel(2)

\* C24 (trader.py and main.py): between one gate acquisition and the matching
\* release at most MAX_MARTINGALE_LEVELS + 1 = 3 orders are placed, so the
\* total stake committed by one sequence never exceeds 7 times
\* INITIAL_TRADE_AMOUNT
C24_BoundedSequence ==
  \A s \in Handlers :
    /\ OrdersPlaced(s) <= MAX_MARTINGALE_LEVELS + 1
    /\ StakeCommitted(s) <= MaxSequenceStake

\* C24, for a sequence begun by the only request that acquired the gate
C24_BoundedSequenceAlone ==
  \A s \in Handlers : Alone(s) =>
    /\ OrdersPlaced(s) <= MAX_MARTINGALE_LEVELS + 1
    /\ StakeCommitted(s) <= MaxSequenceStake

\* C24: the first request's sequence has three orders with the broker and
\* its monitor is calling place_order for a fourth
C24_FourthOrder ==
  /\ Cardinality(OrdersOf(1)) = 3
  /\ PlacingTasks(1) # {}

\* C24: a sequence handled alone has placed three orders, 7 times
\* INITIAL_TRADE_AMOUNT in all
C24_ThreeOrdersAlone ==
  /\ Alone(1)
  /\ OrdersPlaced(1) = 3
  /\ StakeCommitted(1) = MaxSequenceStake

----------------------------------------------------------------------------
(* C25: asset and direction of a sequence *)

\* the asset and the direction of the signal that started sequence s: the one
\* dictionary of request s that passes the validation
SignalAsset(s) == GoodSignal(s).asset_name_for_po

SignalDirection(s) == Upper(GoodSignal(s).direction)

\* order k was placed with the asset and direction of its sequence's signal
OrderFollowsSignal(k) ==
  /\ orders[k].asset = SignalAsset(orders[k].seq)
  /\ orders[k].direction = SignalDirection(orders[k].seq)

\* the gate is held before and after the step
GateHeldThrough == is_processing_trade_sequence /\ is_processing_trade_sequence'

\* the step leaves asset and direction of the dictionary as they are
KeepsAssetAndDirection ==
  /\ trade_sequence_state'.asset = trade_sequence_state.asset
  /\ trade_sequence_state'.direction = trade_sequence_state.direction

\* C25 (trader.py): every order placed within one sequence, the initial one
\* and every re-entry, uses the asset and direction of the signal that
\* started the sequence, and asset and direction in trade_sequence_state are
\* not changed between acquisition and release of the gate
C25_AssetAndDirectionFixed ==
  /\ [](\A k \in 1..Len(orders) : OrderFollowsSignal(k))
  /\ [][GateHeldThrough => KeepsAssetAndDirection]_vars

\* C25, for a sequence begun by the only request that acquired the gate
C25_AssetAndDirectionFixedAlone ==
  /\ [](\A k \in 1..Len(orders) : Alone(orders[k].seq) => OrderFollowsSignal(k))
  /\ [][GateHeldThrough /\ (\E s \in Handlers : Alone(s) /\ handlers[s].acquired)
          => KeepsAssetAndDirection]_vars

\* C25: a re-entry of the first request's sequence was placed with the
\* second request's asset and direction
C25_ReentryWithOtherSignal ==
  \E k \in 1..Len(orders) :
    /\ orders[k].seq = 1
    /\ orders[k].amount = AmountForLevel(1)
    /\ orders[k].asset = SignalAsset(2)
    /\ orders[k].direction = SignalDirection(2)

\* C25: a sequence handled alone has placed its initial order and a
\* re-entry, both with its signal's asset and direction
C25_ReentryWithOwnSignal ==
  /\ Alone(1)
  /\ Len(orders) = 2
  /\ \A k \in 1..2 : orders[k].seq = 1 /\ OrderFollowsSignal(k)

----------------------------------------------------------------------------
(* C26: the duration of every order *)

\* C26 (trader.py): every order of every sequence, initial and re-entry, is
\* placed with the fixed duration FIXED_TRADE_DURATION_SECONDS, whatever
\* expiration the parser extracted from the signal: every place_order call
\* asks for it, every order is booked with it, and every monitor is handed it
C26_FixedDuration ==
  /\ \A k \in 1..Len(orders) : orders[k].duration = FIXED_TRADE_DURATION_SECONDS
  /\ \A r \in PlacingRequests : r.duration = FIXED_TRADE_DURATION_SECONDS
  /\ \A t \in Tasks : tasks[t].duration = FIXED_TRADE_DURATION_SECONDS

\* C26 witness: the second request's signal said 'Expiration 1H'; its initial
\* order and a re-entry were placed with 300 seconds
C26_Witness ==
  /\ impl = "trader"
  /\ GoodSignal(2).duration = 3600
  /\ \E k \in 1..Len(orders) :
       /\ orders[k].seq = 2 /\ orders[k].amount = AmountForLevel(0)
       /\ orders[k].asset = SignalAsset(2)
       /\ orders[k].duration = FIXED_TRADE_DURATION_SECONDS
  /\ \E k \in 1..Len(orders) :
       /\ orders[k].seq = 2 /\ orders[k].amount = AmountForLevel(1)
       /\ orders[k].duration = FIXED_TRADE_DURATION_SECONDS

----------------------------------------------------------------------------
(* C27: the chain of monitors *)

\* the monitor tasks of sequence s
TasksOf(s) == {t \in Tasks : tasks[t].seq = s}

TasksOfNext(s) == {t \in 1..Len(tasks') : tasks'[t].seq = s}

\* the tasks of s that wait out a trade or decide its outcome
LiveTasksOf(s) == {t \in TasksOf(s) : LiveTask(tasks[t])}

\* the monitor tasks that take the step
SteppingTasks == {t \in Tasks : tasks'[t] # tasks[t]}

\* the chain of s is linear: one live task at most, and one task per order,
\* the last order's task still to be spawned or spawned
LinearChain(s) ==
  /\ Cardinality(LiveTasksOf(s)) <= 1
  /\ Cardinality(TasksOf(s)) <= Cardinality(OrdersOf(s))
  /\ Cardinality(OrdersOf(s)) <= Cardinality(TasksOf(s)) + 1

\* a step spawns one task at most; a monitor that spawns ends in that step,
\* and the successor is the monitor of the one order placed since the
\* spawning monitor began
SpawnsOneSuccessor ==
  /\ Len(tasks') <= Len(tasks) + 1
  /\ \A t \in SteppingTasks :
       SpawnsMonitor =>
         /\ ~LiveTask(tasks'[t])
         /\ Spawned.seq = tasks[t].seq
         /\ Cardinality(OrdersOf(tasks[t].seq)) = Cardinality(TasksOf(tasks[t].seq)) + 1

\* a re-entry is booked by a monitor that has waited out its trade, when no
\* trade of the sequence is still being waited out
ReentryAfterDuration ==
  \A s \in Handlers :
    BooksOrderOf(s) /\ OrdersOf(s) # {} =>
      /\ \A t \in TasksOf(s) : tasks[t].pc # "sleep"
      /\ \E t \in TasksOf(s) \cap SteppingTasks : tasks[t].pc = "placing"

\* C27 (trader.py): the monitoring tasks of a sequence form a linear chain:
\* each monitor task spawns at most one successor, only after placing exactly
\* one re-entry order; at any instant at most one task of the sequence is
\* waiting out a trade or deciding its outcome; the next order is never
\* placed before the previous trade's duration has elapsed
C27_LinearChain ==
  /\ [](\A s \in Handlers : LinearChain(s))
  /\ [][SpawnsOneSuccessor /\ ReentryAfterDuration]_vars

\* C27 witness: the chain of the first sequence has three tasks, one per
\* order; the first two have ended and the third waits out the level-2 trade
C27_Witness ==
  /\ impl = "trader"
  /\ TasksOf(1) = {1, 2, 3}
  /\ OrdersOf(1) = {1, 2, 3}
  /\ LiveTasksOf(1) = {3}
  /\ tasks[3].pc = "sleep"
  /\ tasks[3].trade_id = Some(3)

----------------------------------------------------------------------------
(* C28: the monitor's wait *)

\* the positions of a monitor in which an outcome-determination RPC is made:
\* check_order_result (lines 305-316), get_balance for the outcome (line 329)
OutcomeRpc == {"details", "bal_outcome"}

\* a monitor inside asyncio.sleep(duration) has made no RPC and holds no result
WaitsQuietly(tr) ==
  tr.pc = "sleep" =>
    /\ tr.client = 0 /\ tr.req = NoRequest /\ tr.i = 0
    /\ tr.profit = Null /\ tr.current_balance = Null
    /\ tr.trade_id # Null /\ tr.trade_id[1] \in 1..Len(orders) =>
         tr.duration = orders[tr.trade_id[1]].duration

\* a monitor begins in its wait; the wait is one delay, ended by the first
\* check_order_result; no outcome RPC is reached another way
WaitsOnce ==
  /\ SpawnsMonitor => Spawned.pc = "sleep"
  /\ \A t \in SteppingTasks :
       /\ tasks[t].pc = "sleep" => tasks'[t].pc = "details"
       /\ tasks'[t].pc = "details" => tasks[t].pc \in {"sleep", "details"}
       /\ tasks'[t].pc = "bal_outcome" => tasks[t].pc \in OutcomeRpc

\* C28 (trader.py): the monitor issues no outcome-determination RPC
\* (check_order_result, or get_balance for the outcome) for a trade before the
\* full trade duration has elapsed since the monitor started waiting; during
\* the wait it performs a single uninterrupted time delay
C28_NoRpcBeforeDuration ==
  /\ [](\A t \in Tasks : WaitsQuietly(tasks[t]))
  /\ [][WaitsOnce]_vars

\* C28 witness: after its wait the monitor of the first order has asked for
\* the order's result and is asking for the balance
C28_Witness ==
  /\ impl = "trader"
  /\ Len(tasks) = 1
  /\ tasks[1].pc = "bal_outcome"
  /\ tasks[1].trade_id = Some(1)
  /\ tasks[1].profit # Null
  /\ tasks[1].duration = orders[1].duration

----------------------------------------------------------------------------
(* C29: get_valid_balance *)

\* the report is a balance object with a balance that is not null and is
\* strictly positive
GoodReport(r) == ~r.raised /\ r.obj /\ r.balance # Null /\ r.balance[1] > 0

\* what attempt number i + 1 of the caller tr does with the result it gets
AttemptAsClaimed(tr, after) ==
  /\ tr.i < MAX_BALANCE_RETRIES
  /\ after.pc \in {"get_balance", "returned", "returned_none"}
  /\ GoodReport(after.report) =>
       after.pc = "returned" /\ after.current_balance = after.report.balance
  /\ ~GoodReport(after.report) /\ tr.i + 1 < MAX_BALANCE_RETRIES =>
       after.pc = "get_balance" /\ after.i = tr.i + 1
  /\ ~GoodReport(after.report) /\ tr.i + 1 = MAX_BALANCE_RETRIES =>
       after.pc = "returned_none" /\ after.current_balance = Null

\* C29 (trader.py): get_valid_balance never raises and makes at most 10
\* get_balance calls: it returns the first balance object whose balance is
\* non-null and strictly positive, returns None if all 10 attempts raise or
\* report a null, zero or negative balance, and never returns a balance
\* object with a null or non-positive balance
C29_GetValidBalance ==
  /\ [](\A t \in Tasks :
          /\ tasks[t].i < MAX_BALANCE_RETRIES
          /\ tasks[t].pc = "returned" =>
               tasks[t].current_balance # Null /\ tasks[t].current_balance[1] > 0
          /\ tasks[t].pc = "returned_none" => tasks[t].i + 1 = MAX_BALANCE_RETRIES)
  /\ [][\A t \in SteppingTasks : AttemptAsClaimed(tasks[t], tasks'[t])]_vars

\* C29 witness: nine attempts raised or reported no usable balance, and the
\* tenth returned a positive balance
C29_Witness ==
  /\ impl = "balance"
  /\ tasks[1].pc = "returned"
  /\ tasks[1].i + 1 = MAX_BALANCE_RETRIES
  /\ tasks[1].current_balance = Some(BaseBalance)

\* C29: all ten attempts failed, the last one with a balance of zero, and
\* None is returned
C29_ReturnsNone ==
  /\ impl = "balance"
  /\ tasks[1].pc = "returned_none"
  /\ tasks[1].report.balance = Some(0)

----------------------------------------------------------------------------
(* C30: no valid balance before the initial trade *)

\* request h holds the gate it acquired and the last attempt of
\* get_valid_balance("before_initial_trade") gives no usable balance: the
\* request neither waits for the entry time nor calls place_order
NoBalanceBeforeTrade(h) ==
  /\ handlers[h].pc = "bal_before"
  /\ handlers[h].acquired
  /\ handlers[h].i + 1 = MAX_BALANCE_RETRIES
  /\ handlers'[h] # handlers[h]
  /\ handlers'[h].pc \notin {"wait", "placing"}

\* the webhook's way out of it: 503, nothing placed, nothing spawned, the
\* gate released and the dictionary at its defaults
AbortsWith503(h) ==
  /\ handlers'[h].pc = "done"
  /\ handlers'[h].resp = Response("503")
  /\ orders' = orders
  /\ tasks' = tasks
  /\ is_processing_trade_sequence' = FALSE
  /\ trade_sequence_state' = DefaultState

\* request h was answered 503 after it had acquired the gate
AbortedAfterGate(h) ==
  /\ handlers[h].pc = "done"
  /\ handlers[h].acquired
  /\ handlers[h].resp.status = "503"

\* C30 (trader.py): if no valid balance can be read before the initial trade
\* (get_valid_balance returns None after the gate was acquired), the webhook
\* answers 503, no order is placed, no monitor is spawned, and the gate is
\* released with trade_sequence_state reset to defaults
C30_NoBalanceAborts ==
  /\ [][\A h \in Handlers : NoBalanceBeforeTrade(h) => AbortsWith503(h)]_vars
  /\ [](impl = "trader" =>
          \A h \in Handlers :
            AbortedAfterGate(h) => OrdersPlaced(h) = 0 /\ TasksOf(h) = {})

\* C30 witness: the first request acquired the gate, all ten balance reads
\* failed, and it was answered 503 with the gate free and the dictionary at
\* its defaults
C30_Witness ==
  /\ impl = "trader"
  /\ AbortedAfterGate(1)
  /\ handlers[1].parsed = Null
  /\ ~is_processing_trade_sequence
  /\ trade_sequence_state = DefaultState
  /\ orders = <<>>
  /\ tasks = <<>>

----------------------------------------------------------------------------
(* C31: the dictionary mirrors the gate *)

\* the active flag says what the gate says, and a free gate comes with the
\* idle form of the dictionary
MirrorsGate ==
  /\ trade_sequence_state.active = is_processing_trade_sequence
  /\ ~is_processing_trade_sequence => trade_sequence_state = DefaultState

\* some request other than h has acquired the gate
SomeOtherAcquired(h) == \E g \in Handlers \ {h} : handlers[g].acquired

\* C31 (trader.py): at every point where another task can run,
\* trade_sequence_state['active'] equals is_processing_trade_sequence, and
\* whenever the gate is free trade_sequence_state equals its default/idle form
C31_StateMirrorsGate == impl = "trader" => MirrorsGate

\* C31, while at most one request has acquired the gate
C31_StateMirrorsGateAlone ==
  (impl = "trader" /\ \A h \in Handlers : ~SomeOtherAcquired(h) \/ ~handlers[h].acquired)
    => MirrorsGate

\* C31: the gate is free and the dictionary holds the balance snapshot of a
\* request that is still on its way to its order
C31_SnapshotWithGateFree ==
  /\ impl = "trader"
  /\ ~is_processing_trade_sequence
  /\ trade_sequence_state.balance_before_current_trade # Null
  /\ \E h \in Handlers : handlers[h].acquired /\ handlers[h].pc \in {"wait", "placing"}

\* C31, one request alone: a sequence is under way with the gate held and
\* the active flag set, and the dictionary is not idle
C31_HeldAndActive ==
  /\ impl = "trader"
  /\ \A h \in Handlers : ~SomeOtherAcquired(h) \/ ~handlers[h].acquired
  /\ is_processing_trade_sequence
  /\ trade_sequence_state.active
  /\ trade_sequence_state.current_level = 1
  /\ Len(orders) = 2

----------------------------------------------------------------------------
(* C32: the wait for the entry time *)

\* request h is suspended in asyncio.sleep(time_to_wait_seconds), line 219
Waiting(h) == impl = "trader" /\ handlers[h].pc = "wait"

\* what a signal arriving now is answered at line 139
AnsweredIgnored == GateHeld(is_processing_trade_sequence)

\* request h, whose target time lies ahead, calls place_order in this step
CallsPlaceOrderEarly(h) ==
  /\ impl = "trader"
  /\ handlers[h].must_wait
  /\ handlers[h].pc # "placing"
  /\ handlers'[h].pc = "placing"

\* request g arrives in this step while request h waits for its entry time
ArrivesDuringWait(g, h) ==
  /\ Waiting(h)
  /\ handlers[g].pc = "new"
  /\ handlers'[g].pc # "new"

\* the gate is acquired before the wait, and place_order is called only
\* when the wait is over
WaitsThenPlaces ==
  /\ [](\A h \in Handlers :
          Waiting(h) => handlers[h].acquired /\ handlers[h].must_wait)
  /\ [][\A h \in Handlers : CallsPlaceOrderEarly(h) => handlers[h].pc = "wait"]_vars

\* C32 (trader.py): when the resolved target time is d > 0.05 seconds ahead
\* at arrival, the handler acquires the gate first, then suspends for d
\* seconds and only then calls place_order: the initial order is never
\* placed before the target time, and every signal arriving during that
\* wait is answered 'ignored'
C32_WaitUnderGate ==
  /\ WaitsThenPlaces
  /\ []((\E h \in Handlers : Waiting(h)) => AnsweredIgnored)
  /\ [][\A g, h \in Handlers :
          ArrivesDuringWait(g, h) => handlers'[g].resp = Response("ignored")]_vars

\* C32, for a request that alone has acquired the gate
C32_WaitUnderGateAlone ==
  /\ WaitsThenPlaces
  /\ [](\A h \in Handlers : Waiting(h) /\ Alone(h) => AnsweredIgnored)
  /\ [][\A g, h \in Handlers :
          ArrivesDuringWait(g, h) => handlers'[g].resp = Response("ignored")]_vars

\* C32: a request waits for its entry time and the gate is free: the next
\* signal would begin a sequence of its own
C32_WaitingWithGateFree ==
  \E h \in Handlers : Waiting(h) /\ ~AnsweredIgnored

\* C32, one request alone: the second signal arrived during the wait of the
\* first and was answered 'ignored', and the first has called place_order
C32_IgnoredDuringWait ==
  /\ impl = "trader"
  /\ handlers[1].pc = "placing"
  /\ handlers[1].must_wait
  /\ handlers[2].pc = "done"
  /\ handlers[2].resp = Response("ignored")
  /\ is_processing_trade_sequence

----------------------------------------------------------------------------
(* C33: main.py, a decision without a balance *)

\* the last get_balance of task t's decision loop returns in this step, on
\* a client that can only raise, and no earlier attempt returned anything
AllDecisionReadsRaise(t) ==
  /\ impl = "main"
  /\ tasks[t].pc = "bal_outcome"
  /\ MainExhausted(tasks[t].i)
  /\ tasks[t].current_balance = Null
  /\ ~CanSucceed(tasks[t].client)
  /\ tasks'[t].pc # "bal_outcome"

\* the decision of task t in this step is a loss: a re-entry below the last
\* level, the reset of a lost sequence at the last level
MainDecidesLoss(t) ==
  /\ tasks'[t].martingale_reentry_needed = "True"
  /\ trade_sequence_state'.last_trade_status # "win"
  /\ IF trade_sequence_state.current_level < MAX_MARTINGALE_LEVELS
       THEN /\ trade_sequence_state'.current_level
                 = trade_sequence_state.current_level + 1
            /\ is_processing_trade_sequence' = is_processing_trade_sequence
       ELSE /\ trade_sequence_state'.last_trade_status = "Loss"
            /\ ~is_processing_trade_sequence'

\* C33 (main.py): RPC failure during outcome determination is treated as
\* loss: if every get_balance attempt made for the decision raises, the
\* handler decides loss (re-entry when current_level < MAX_MARTINGALE_LEVELS,
\* reset otherwise) and never treats the trade as won
C33_FailedReadsDecideLoss ==
  [][\A t \in Tasks : AllDecisionReadsRaise(t) => MainDecidesLoss(t)]_vars

----------------------------------------------------------------------------
(* C34: main.py, after the initial order is placed *)

\* the initial order of request h is placed and its handler is past
\* place_order: it reads the order's details or the balance after entry
InitialOrderPlaced(h) ==
  /\ impl = "main"
  /\ handlers[h].pc \in {"details", "bal_after"}

\* the handler of request h returns or raises in this step
HandlerEnds(h) == handlers[h].pc # "done" /\ handlers'[h].pc = "done"

\* the handler ends as line 297 has it: 'Failed to place initial trade'
ReportsPlacementFailure(h) ==
  HandlerEnds(h) /\ handlers'[h].resp.status = "500"

\* a monitor for the order of request h is spawned and the gate is left as
\* it is
SpawnsMonitorUnderGate(h) ==
  /\ Len(tasks') = Len(tasks) + 1
  /\ tasks'[Len(tasks')].seq = h
  /\ tasks'[Len(tasks')].trade_id = trade_sequence_state'.last_trade_id
  /\ is_processing_trade_sequence' = is_processing_trade_sequence

\* C34 (main.py): once place_order for the initial trade has succeeded a
\* monitor task for that order is always spawned and the gate stays held;
\* the handler releases the gate and reports 'Failed to place initial trade'
\* only when place_order itself raised, never because a later step (reading
\* order details, reading last_trade_open_price, get_balance) failed
C34_PlacedOrderIsMonitored ==
  [][\A h \in Handlers :
       /\ InitialOrderPlaced(h) /\ HandlerEnds(h) =>
            SpawnsMonitorUnderGate(h) /\ ~ReportsPlacementFailure(h)
       /\ impl = "main" /\ handlers[h].acquired /\ ReportsPlacementFailure(h) =>
            handlers[h].pc = "placing"]_vars

\* C34: the initial order of the first request is placed, its handler has
\* reported a failed placement, no monitor exists and the gate is free
C34_PlacedOrderUnmonitored ==
  /\ impl = "main"
  /\ handlers[1].pc = "done"
  /\ handlers[1].resp.status = "500"
  /\ handlers[2].pc = "new"
  /\ Len(orders) = 1
  /\ orders[1].seq = 1
  /\ tasks = <<>>
  /\ ~is_processing_trade_sequence

----------------------------------------------------------------------------
(* C35: main.py, the dictionary at the release of the gate *)

\* the idle form the claim names, field by field
MainIdleForm(st) ==
  /\ st.active = FALSE
  /\ st.asset = None
  /\ st.direction = None
  /\ st.last_trade_id = Null
  /\ st.current_level = 0
  /\ st.current_amount = INITIAL_TRADE_AMOUNT
  /\ st.last_trade_status = None

\* C35 (main.py): whenever the gate is released (win, loss at max level, or
\* placement failure) trade_sequence_state returns to its default/idle form:
\* active false, asset, direction and last_trade_id null, level 0, amount
\* INITIAL_TRADE_AMOUNT, status null
C35_ReleaseRestoresIdleForm ==
  [][impl = "main" /\ ReleasesGate => MainIdleForm(trade_sequence_state')]_vars

\* C35, the fields the release does write: active, level and amount
C35_ReleaseResetsLevelAndAmount ==
  [][impl = "main" /\ ReleasesGate =>
       /\ trade_sequence_state'.active = FALSE
       /\ trade_sequence_state'.current_level = 0
       /\ trade_sequence_state'.current_amount = INITIAL_TRADE_AMOUNT]_vars

\* C35: the one sequence of the run is over, its monitor has ended and the
\* gate is free, and the dictionary still names the asset, the direction
\* and the last order
C35_IdleWithLastTrade ==
  /\ impl = "main"
  /\ ~is_processing_trade_sequence
  /\ \A h \in Handlers : h # 1 => handlers[h].pc = "new"
  /\ Len(tasks) = 1
  /\ tasks[1].pc = "done"
  /\ trade_sequence_state.asset # None
  /\ trade_sequence_state.direction # None
  /\ trade_sequence_state.last_trade_id = Some(1)

----------------------------------------------------------------------------
(* C36: main.py, the date of the resolved entry time *)

\* today's date in the remote timezone, off hours behind the local instant
RemoteToday(now, off) == IF now.hour < off THEN now.day - 1 ELSE now.day

\* request h has resolved its entry time
Resolved(h) == impl = "resolve" /\ handlers[h].pc = "resolved"

\* C36 (main.py): for every current instant (remote timezone 6 or 7 hours
\* behind local) the calendar date combined with the signal's time-of-day
\* equals today's date in the remote timezone: one day is subtracted from
\* the local date exactly when the remote date is behind the local date
C36_DateIsRemoteToday ==
  \A h \in Handlers :
    Resolved(h) =>
      /\ handlers[h].signal_date
           = Some(RemoteToday(handlers[h].now, handlers[h].offset))
      /\ (handlers[h].signal_date = Some(handlers[h].now.day - 1))
           <=> (RemoteToday(handlers[h].now, handlers[h].offset)
                  < handlers[h].now.day)

\* C36, in winter (seven hours behind): the date is the remote date
C36_DateIsRemoteTodayInWinter ==
  \A h \in Handlers :
    Resolved(h) /\ handlers[h].offset = 7 =>
      handlers[h].signal_date
        = Some(RemoteToday(handlers[h].now, handlers[h].offset))

\* C36: in summer at 06:00 local time it is 00:00 of the same day in the
\* remote timezone, and the resolver has taken the day before
C36_YesterdayAtSix ==
  /\ Resolved(1)
  /\ handlers[1].offset = 6
  /\ handlers[1].now = [day |-> 3, hour |-> 6, minute |-> 0]
  /\ RemoteToday(handlers[1].now, 6) = 3
  /\ handlers[1].signal_date = Some(2)

\* C36: at 03:00 local time the remote date is the day before, and the
\* resolver has taken it
C36_YesterdayAtThree ==
  /\ Resolved(1)
  /\ handlers[1].now = [day |-> 3, hour |-> 3, minute |-> 0]
  /\ handlers[1].signal_date = Some(2)
  /\ handlers[1].target_local_dt = Some(<<2, 17, 59>>)

----------------------------------------------------------------------------
(* C37: main.py, a signal while the handle is None *)

\* request h arrives in this step, the gate free and the handle None
ArrivesWithoutClient(h) ==
  /\ impl = "main"
  /\ pocket_option_client = 0
  /\ ~is_processing_trade_sequence
  /\ handlers[h].pc = "new"
  /\ handlers'[h].pc # "new"

\* request h is answered 503 in this step without having touched the gate
Answers503WithoutGate(h) ==
  /\ handlers'[h].pc = "done"
  /\ handlers'[h].resp = Response("503")
  /\ ~handlers'[h].acquired
  /\ is_processing_trade_sequence' = is_processing_trade_sequence

\* C37 (main.py): a signal arriving while the broker handle
\* pocket_option_client is None (startup connection never established)
\* triggers one reconnect attempt and, if that fails, a 503
\* service-unavailable answer with the gate not acquired; the handler does
\* not fail before reaching the reconnect step
C37_NoClientReconnectsOr503 ==
  [][\A h \in Handlers :
       /\ ArrivesWithoutClient(h) =>
            handlers'[h].pc = "connect" \/ Answers503WithoutGate(h)
       /\ impl = "main" /\ handlers[h].pc = "connect" /\ handlers'[h].pc = "done" =>
            Answers503WithoutGate(h)]_vars

\* C37, for a handle that exists and is not connected: the handler reaches
\* the reconnect step
C37_DisconnectedReconnects ==
  [][\A h \in Handlers :
       impl = "main" /\ pocket_option_client # 0 /\ ~ClientUsable
       /\ ~is_processing_trade_sequence
       /\ handlers[h].pc = "new" /\ handlers'[h].pc # "new" =>
         handlers'[h].pc = "connect"]_vars

\* C37: the handle was None at startup and the first signal was answered
\* 500, with no reconnect attempt made
C37_FailsBeforeReconnect ==
  /\ impl = "main"
  /\ pocket_option_client = 0
  /\ client_objs = 0
  /\ faults = 0
  /\ handlers[1].pc = "done"
  /\ handlers[1].resp = Response("500")
  /\ ~handlers[1].acquired
  /\ handlers[2].pc = "new"

----------------------------------------------------------------------------
(* C38: the parser is all-or-nothing *)

\* the notification lacks the asset, the expiration (or its duration does
\* not convert) or the direction
LacksEssential(n) ==
  \/ n.asset = None
  \/ n.expiration = None
  \/ convert_duration_text_to_seconds(n.expiration) = 0
  \/ n.keyword = None

\* request h's body has been parsed and validated
Parsed(h) == impl = "parse" /\ handlers[h].pc \in {"done", "validated"}

\* C38 (parse_data.py): parse_macrodroid_trade_data is all-or-nothing for
\* asset, expiration and direction: it returns an empty dict whenever the
\* asset, the expiration (or a non-convertible duration) or the direction is
\* missing, and every non-empty result contains asset_name_for_po, a
\* duration greater than 0 and a direction in {BUY, SELL}; only entryTime may
\* be null in a non-empty result, and the webhook then rejects the signal
\* with 400
C38_ParserAllOrNothing ==
  \A h \in Handlers :
    Parsed(h) =>
      LET n == handlers[h].notification
          parsed == handlers[h].parsed[1]
      IN /\ LacksEssential(n) => parsed = EmptyDict
         /\ parsed # EmptyDict =>
              /\ parsed.asset_name_for_po # None
              /\ parsed.duration > 0
              /\ parsed.direction \in {"BUY", "SELL"}
         /\ parsed # EmptyDict /\ parsed.entryTime = Null =>
              handlers[h].pc = "done" /\ handlers[h].resp = Response("400")

\* C38 witness: a notification with asset, expiration and direction and no
\* entry time was parsed into a dictionary whose entryTime alone is null,
\* and the webhook answered 400
C38_Witness ==
  /\ Parsed(1)
  /\ handlers[1].notification =
       [asset |-> "EUR/USD", expiration |-> "5M", keyword |-> "Up", entry |-> Null]
  /\ handlers[1].parsed =
       Some([asset_name_for_po |-> "EURUSDT", direction |-> "BUY",
             entryTime |-> Null, duration |-> 300])
  /\ handlers[1].resp = Response("400")

\* C38: a notification whose expiration does not convert was parsed into
\* the empty dictionary
C38_EmptyForZeroDuration ==
  /\ Parsed(1)
  /\ handlers[1].notification.asset = "GBPCHF"
  /\ handlers[1].notification.expiration = "0M"
  /\ handlers[1].notification.keyword = "sell"
  /\ handlers[1].parsed = Some(EmptyDict)

====
